---------------------------- MODULE Spec2Model ----------------------------
(***************************************************************************)
(* Model of the Zylith association-set provider (rust/asp): the            *)
(* incremental Merkle tree of merkle.rs, the Store of storage.rs, the      *)
(* event handlers of events.rs and the path queries of main.rs.            *)
(*                                                                         *)
(* Field elements (Felt) are natural numbers.  poseidon_hash is an         *)
(* injective pairing that never returns 0, so two hashes are equal only    *)
(* when their inputs are.                                                  *)
(***************************************************************************)
EXTENDS Integers, Sequences, FiniteSets, TLC

\* ------------------------------------------------------------------ bounds
\* Largest tree height explored (the build fixes one height; tests use 2..4).
MaxHeight == 2
\* Felts offered as leaves are 0..MaxFelt.
MaxFelt == 3

\* Largest number of blocks the chain produces.
MaxBlocks == 2
\* Largest finality depth a configuration uses.
MaxFinality == 1
\* Largest number of chain reorganisations.
MaxReorgs == 1
\* Largest number of events of a contract gone wrong on the chain.
MaxFaults == 1
\* Largest number of resync commands waiting in the command channel.
MaxCommands == 1
\* The step budgets the root-to-leaf-count scan is checked with, beside the
\* code's own: 0 .. MaxBudget.
MaxBudget == 2
\* A timer cycle begins only while no root cache holds more entries than this:
\* cycles that fail before the first checkpoint push the same roots again.
MaxCacheLen == 3

\* --------------------------------------------------------------- constants
\* events.rs ROOT_CACHE_LIMIT
ROOT_CACHE_LIMIT == 256
\* events.rs and main.rs MAX_ROOT_LOOKUP_STEPS
MAX_ROOT_LOOKUP_STEPS == 512
\* Felt::ZERO
FeltZero == 0
\* The reserved zero-leaf hash (generated_constants::ZERO_LEAF_HASH_HEX): some
\* fixed non-zero felt.
zero_leaf_hash == 1

Felts == 0 .. MaxFelt
Heights == 1 .. MaxHeight

\* starknet_crypto::poseidon_hash, modelled as Cantor's pairing plus one.
poseidon_hash(l, r) == ((l + r) * (l + r + 1)) \div 2 + r + 1

RECURSIVE Pow2(_)
Pow2(n) == IF n = 0 THEN 1 ELSE 2 * Pow2(n - 1)

\* --------------------------------------------------------------- MerkleTree
\* zero_hashes[level] of the code is ZeroHashes(height)[level + 1] here.
RECURSIVE ZeroHashes(_)
ZeroHashes(height) ==
    IF height = 1 THEN << zero_leaf_hash >>
    ELSE LET prev == ZeroHashes(height - 1)
         IN  Append(prev, poseidon_hash(prev[height - 1], prev[height - 1]))

zh(tree, level) == tree.zero_hashes[level + 1]

EmptyNodes == [p \in {} |-> 0]

NodesGet(nodes, level, idx, default) ==
    IF << level, idx >> \in DOMAIN nodes THEN nodes[<< level, idx >>] ELSE default

NodesInsert(nodes, level, idx, v) ==
    [p \in (DOMAIN nodes) \cup {<< level, idx >>} |->
        IF p = << level, idx >> THEN v ELSE nodes[p]]

NodesRemove(nodes, level, idx) ==
    [p \in (DOMAIN nodes) \ {<< level, idx >>} |-> nodes[p]]

\* MerkleTree::new
new(height) ==
    LET zeros == ZeroHashes(height)
    IN  [height      |-> height,
         zero_hashes |-> zeros,
         nodes       |-> EmptyNodes,
         next_index  |-> 0,
         root        |-> poseidon_hash(zeros[height], zeros[height])]

\* max_leaves: 1u64.checked_shl(height), which is 2^height for height < 64.
max_leaves(height) == Pow2(height)

\* empty_root
empty_root(height, zero_hashes) ==
    LET top == zero_hashes[(IF height >= 1 THEN height - 1 ELSE 0) + 1]
    IN  poseidon_hash(top, top)

Ok(index, root) == [tag |-> "Ok", index |-> index, root |-> root]
Err(kind) == [tag |-> kind, index |-> 0, root |-> 0]

\* InsertWalk with the two children combined in the wrong order at a right child.
RECURSIVE InsertWalk_SwappedParity(_, _, _, _, _)
InsertWalk_SwappedParity(tree, nodes, current, idx, level) ==
    IF level = tree.height THEN [nodes |-> nodes, root |-> current]
    ELSE LET zero     == zh(tree, level)
             stored   == IF current = zero
                         THEN NodesRemove(nodes, level, idx)
                         ELSE NodesInsert(nodes, level, idx, current)
             is_right == (idx % 2) = 1
             sibling_index == IF is_right THEN idx - 1 ELSE idx + 1
             sibling  == NodesGet(stored, level, sibling_index, zero)
         IN  InsertWalk_SwappedParity(tree, stored, poseidon_hash(current, sibling),
                                      idx \div 2, level + 1)

\* The loop of insert_at over level = from .. height-1: stores the node of
\* each level (or removes it when it is the level's zero hash) and combines
\* it with its sibling.  Yields the node map and the new root.
RECURSIVE InsertWalk(_, _, _, _, _)
InsertWalk(tree, nodes, current, idx, level) ==
    IF level = tree.height THEN [nodes |-> nodes, root |-> current]
    ELSE LET zero     == zh(tree, level)
             stored   == IF current = zero
                         THEN NodesRemove(nodes, level, idx)
                         ELSE NodesInsert(nodes, level, idx, current)
             is_right == (idx % 2) = 1
             sibling_index == IF is_right THEN idx - 1 ELSE idx + 1
             sibling  == NodesGet(stored, level, sibling_index, zero)
             left     == IF is_right THEN sibling ELSE current
             right    == IF is_right THEN current ELSE sibling
         IN  InsertWalk(tree, stored, poseidon_hash(left, right), idx \div 2, level + 1)

\* insert_at without the index-gap check.
insert_at_NoGapCheck(tree, index, leaf) ==
    IF leaf = FeltZero THEN [tree |-> tree, res |-> Err("InvalidLeaf")]
    ELSE IF leaf = zh(tree, 0) THEN [tree |-> tree, res |-> Err("InvalidLeaf")]
    ELSE IF index >= max_leaves(tree.height) THEN [tree |-> tree, res |-> Err("TreeFull")]
    ELSE IF tree.next_index >= max_leaves(tree.height)
         THEN [tree |-> tree, res |-> Err("TreeFull")]
    ELSE IF index < tree.next_index
         THEN IF NodesGet(tree.nodes, 0, index, zh(tree, 0)) # leaf
              THEN [tree |-> tree, res |-> Err("LeafMismatch")]
              ELSE [tree |-> tree, res |-> Ok(index, tree.root)]
    ELSE LET w == InsertWalk(tree, tree.nodes, leaf, index, 0)
             t == [tree EXCEPT !.next_index = tree.next_index + 1,
                               !.nodes = w.nodes,
                               !.root = w.root]
         IN  [tree |-> t, res |-> Ok(index, w.root)]

\* insert_at without the zero-leaf-hash check.
insert_at_NoZeroHashCheck(tree, index, leaf) ==
    IF leaf = FeltZero THEN [tree |-> tree, res |-> Err("InvalidLeaf")]
    ELSE IF index >= max_leaves(tree.height) THEN [tree |-> tree, res |-> Err("TreeFull")]
    ELSE IF tree.next_index >= max_leaves(tree.height)
         THEN [tree |-> tree, res |-> Err("TreeFull")]
    ELSE IF index < tree.next_index
         THEN IF NodesGet(tree.nodes, 0, index, zh(tree, 0)) # leaf
              THEN [tree |-> tree, res |-> Err("LeafMismatch")]
              ELSE [tree |-> tree, res |-> Ok(index, tree.root)]
    ELSE IF index # tree.next_index THEN [tree |-> tree, res |-> Err("IndexGap")]
    ELSE LET w == InsertWalk(tree, tree.nodes, leaf, index, 0)
             t == [tree EXCEPT !.next_index = tree.next_index + 1,
                               !.nodes = w.nodes,
                               !.root = w.root]
         IN  [tree |-> t, res |-> Ok(index, w.root)]

\* insert_at whose capacity checks are off by one.
insert_at_CapacityOffByOne(tree, index, leaf) ==
    IF leaf = FeltZero THEN [tree |-> tree, res |-> Err("InvalidLeaf")]
    ELSE IF leaf = zh(tree, 0) THEN [tree |-> tree, res |-> Err("InvalidLeaf")]
    ELSE IF index > max_leaves(tree.height) THEN [tree |-> tree, res |-> Err("TreeFull")]
    ELSE IF tree.next_index > max_leaves(tree.height)
         THEN [tree |-> tree, res |-> Err("TreeFull")]
    ELSE IF index < tree.next_index
         THEN IF NodesGet(tree.nodes, 0, index, zh(tree, 0)) # leaf
              THEN [tree |-> tree, res |-> Err("LeafMismatch")]
              ELSE [tree |-> tree, res |-> Ok(index, tree.root)]
    ELSE IF index # tree.next_index THEN [tree |-> tree, res |-> Err("IndexGap")]
    ELSE LET w == InsertWalk(tree, tree.nodes, leaf, index, 0)
             t == [tree EXCEPT !.next_index = tree.next_index + 1,
                               !.nodes = w.nodes,
                               !.root = w.root]
         IN  [tree |-> t, res |-> Ok(index, w.root)]

\* MerkleTree::insert_at: the tree after the call and the Result returned.
insert_at(tree, index, leaf) ==
    IF leaf = FeltZero THEN [tree |-> tree, res |-> Err("InvalidLeaf")]
    ELSE IF leaf = zh(tree, 0) THEN [tree |-> tree, res |-> Err("InvalidLeaf")]
    ELSE IF index >= max_leaves(tree.height) THEN [tree |-> tree, res |-> Err("TreeFull")]
    ELSE IF tree.next_index >= max_leaves(tree.height)
         THEN [tree |-> tree, res |-> Err("TreeFull")]
    ELSE IF index < tree.next_index
         THEN IF NodesGet(tree.nodes, 0, index, zh(tree, 0)) # leaf
              THEN [tree |-> tree, res |-> Err("LeafMismatch")]
              ELSE [tree |-> tree, res |-> Ok(index, tree.root)]
    ELSE IF index # tree.next_index THEN [tree |-> tree, res |-> Err("IndexGap")]
    ELSE LET w == InsertWalk(tree, tree.nodes, leaf, index, 0)
             t == [tree EXCEPT !.next_index = tree.next_index + 1,
                               !.nodes = w.nodes,
                               !.root = w.root]
         IN  [tree |-> t, res |-> Ok(index, w.root)]

\* hash_subtree_at that serves a stored node without looking at leaf_count.
RECURSIVE hash_subtree_at_Untruncated(_, _, _, _)
hash_subtree_at_Untruncated(tree, level, index, leaf_count) ==
    NodesGet(tree.nodes, level, index, zh(tree, level))

\* MerkleTree::hash_subtree_at
RECURSIVE hash_subtree_at(_, _, _, _)
hash_subtree_at(tree, level, index, leaf_count) ==
    LET subtree_size == Pow2(level)
        start == index * subtree_size
        end   == start + subtree_size
    IN  IF leaf_count <= start THEN zh(tree, level)
        ELSE IF leaf_count >= end
             THEN NodesGet(tree.nodes, level, index, zh(tree, level))
        ELSE IF level = 0
             THEN NodesGet(tree.nodes, 0, index, zh(tree, 0))
        ELSE poseidon_hash(hash_subtree_at(tree, level - 1, index * 2, leaf_count),
                           hash_subtree_at(tree, level - 1, index * 2 + 1, leaf_count))

SomeFelt(v) == [some |-> TRUE, val |-> v]
NoFelt == [some |-> FALSE, val |-> 0]

\* MerkleTree::root_at
root_at(tree, leaf_count) ==
    IF leaf_count > tree.next_index THEN NoFelt
    ELSE IF leaf_count = 0 THEN SomeFelt(empty_root(tree.height, tree.zero_hashes))
    ELSE SomeFelt(poseidon_hash(hash_subtree_at(tree, tree.height - 1, 0, leaf_count),
                                hash_subtree_at(tree, tree.height - 1, 1, leaf_count)))

\* PathWalk that takes each sibling from the current tree, not the truncated one.
RECURSIVE PathWalk_CurrentTree(_, _, _, _)
PathWalk_CurrentTree(tree, idx, leaf_count, level) ==
    IF level = tree.height THEN [path |-> << >>, indices |-> << >>]
    ELSE LET is_right == (idx % 2) = 1
             sibling_index == IF is_right THEN idx - 1 ELSE idx + 1
             sibling == hash_subtree_at(tree, level, sibling_index, tree.next_index)
             rest == PathWalk_CurrentTree(tree, idx \div 2, leaf_count, level + 1)
         IN  [path |-> << sibling >> \o rest.path,
              indices |-> << is_right >> \o rest.indices]

\* The loop shared by get_path_at and insertion_path_at, level = from .. height-1.
RECURSIVE PathWalk(_, _, _, _)
PathWalk(tree, idx, leaf_count, level) ==
    IF level = tree.height THEN [path |-> << >>, indices |-> << >>]
    ELSE LET is_right == (idx % 2) = 1
             sibling_index == IF is_right THEN idx - 1 ELSE idx + 1
             sibling == hash_subtree_at(tree, level, sibling_index, leaf_count)
             rest == PathWalk(tree, idx \div 2, leaf_count, level + 1)
         IN  [path |-> << sibling >> \o rest.path,
              indices |-> << is_right >> \o rest.indices]

SomePath(leaf_index, w) ==
    [some |-> TRUE, leaf_index |-> leaf_index, path |-> w.path, indices |-> w.indices]
NoPath == [some |-> FALSE, leaf_index |-> 0, path |-> << >>, indices |-> << >>]

\* MerkleTree::get_path_at
get_path_at(tree, leaf_index, leaf_count) ==
    IF leaf_index >= leaf_count \/ leaf_count > tree.next_index THEN NoPath
    ELSE SomePath(leaf_index, PathWalk(tree, leaf_index, leaf_count, 0))

\* insertion_path_at without the comparison of leaf_count with next_index.
insertion_path_at_AnyCount(tree, leaf_count) ==
    LET leaf_index == leaf_count
    IN  IF leaf_index >= Pow2(tree.height) THEN NoPath
        ELSE SomePath(leaf_index, PathWalk(tree, leaf_index, leaf_count, 0))

\* MerkleTree::insertion_path_at
insertion_path_at(tree, leaf_count) ==
    LET leaf_index == leaf_count
    IN  IF leaf_index >= Pow2(tree.height) \/ leaf_index > tree.next_index THEN NoPath
        ELSE SomePath(leaf_index, PathWalk(tree, leaf_index, leaf_count, 0))

\* MerkleTree::insertion_path (test builds only)
insertion_path(tree) ==
    LET leaf_index == tree.next_index
    IN  IF leaf_index >= Pow2(tree.height) THEN NoPath
        ELSE SomePath(leaf_index, PathWalk(tree, leaf_index, tree.next_index, 0))

\* compute_root_from_path of the tests: fold a leaf with siblings and flags
\* (flag TRUE: the running hash is the right child).
RECURSIVE compute_root_from_path(_, _, _)
compute_root_from_path(leaf, path, indices) ==
    IF path = << >> THEN leaf
    ELSE compute_root_from_path(
            IF Head(indices) THEN poseidon_hash(Head(path), leaf)
                             ELSE poseidon_hash(leaf, Head(path)),
            Tail(path), Tail(indices))

\* ------------------------------------------------------------ tree helpers
ValidLeaf(t, leaf) == leaf # FeltZero /\ leaf # zh(t, 0)

\* The leaf stored at a used index.
StoredLeaf(t, index) == NodesGet(t.nodes, 0, index, zh(t, 0))

\* A fresh tree of the given height into which the leaves were inserted in order.
RECURSIVE Replay(_, _)
Replay(height, leaves) ==
    IF leaves = << >> THEN new(height)
    ELSE LET n == Len(leaves)
         IN  insert_at(Replay(height, SubSeq(leaves, 1, n - 1)), n - 1, leaves[n]).tree

\* -------------------------------------------------------------- hex strings
\* A hex string is the felt it spells and whether the spelling is the one
\* format!("0x{:x}") produces; another spelling (leading zeros, upper case)
\* parses to the same felt but is a different string.
felt_to_hex(value) == [val |-> value, canon |-> TRUE]
OtherSpelling(value) == [val |-> value, canon |-> FALSE]
parse_felt(str) == str.val

\* -------------------------------------------------------------------- Store
\* Tree keys: the position sentinel and one asset address.
Tokens == {"position", "0xa"}

NoBlock == [some |-> FALSE, val |-> 0]
SomeBlock(b) == [some |-> TRUE, val |-> b]

\* An insert that overwrites the row of an already-stored (token, leaf_index).
insert_commitment_Upsert(commitments, record) ==
    LET same_key == {r \in commitments : r.token = record.token
                                         /\ r.leaf_index = record.leaf_index}
    IN  [rows |-> (commitments \ same_key) \cup {record}, res |-> "Ok",
         inserted |-> same_key = {}]

\* Storage::insert_commitment: ON CONFLICT DO NOTHING on the primary key
\* (token, leaf_index) and on UNIQUE (token, commitment), then the read-back
\* by (token, leaf_index) when no row was inserted.
insert_commitment(commitments, record) ==
    LET same_key == {r \in commitments : r.token = record.token
                                         /\ r.leaf_index = record.leaf_index}
        same_val == {r \in commitments : r.token = record.token
                                         /\ r.commitment = record.commitment}
    IN  IF same_key # {}
        THEN IF \E r \in same_key : r.commitment # record.commitment
             THEN [rows |-> commitments, res |-> "Invariant", inserted |-> FALSE]
             ELSE [rows |-> commitments, res |-> "Ok", inserted |-> FALSE]
        ELSE IF same_val # {}
             THEN [rows |-> commitments, res |-> "Db", inserted |-> FALSE]
        ELSE [rows |-> commitments \cup {record}, res |-> "Ok", inserted |-> TRUE]

\* Storage::insert_root
insert_root(roots, record) ==
    LET same_key == {r \in roots : r.token = record.token
                                   /\ r.root_index = record.root_index}
    IN  IF same_key # {}
        THEN IF \E r \in same_key : r.root_hash # record.root_hash
                                    \/ r.leaf_count # record.leaf_count
             THEN [rows |-> roots, res |-> "Invariant", inserted |-> FALSE]
             ELSE [rows |-> roots, res |-> "Ok", inserted |-> FALSE]
        ELSE [rows |-> roots \cup {record}, res |-> "Ok", inserted |-> TRUE]

\* A backfill that overwrites the leaf_count of every row of the root.
update_root_leaf_count_Overwrite(roots, token, root_hash, leaf_count) ==
    [rows |-> {IF r.token = token /\ r.root_hash = root_hash
               THEN [r EXCEPT !.leaf_count = leaf_count] ELSE r : r \in roots},
     res  |-> "Ok"]

\* Storage::update_root_leaf_count
update_root_leaf_count(roots, token, root_hash, leaf_count) ==
    LET rows == {r \in roots : r.token = token /\ r.root_hash = root_hash}
    IN  IF rows = {} THEN [rows |-> roots, res |-> "Ok"]
        ELSE IF \E r \in rows : r.leaf_count # 0 /\ r.leaf_count # leaf_count
             THEN [rows |-> roots, res |-> "Invariant"]
        ELSE [rows |-> {IF r \in rows /\ r.leaf_count = 0
                        THEN [r EXCEPT !.leaf_count = leaf_count] ELSE r : r \in roots},
              res  |-> "Ok"]

\* The row of a token with the largest root_index (ORDER BY root_index DESC LIMIT 1).
LatestRootRows(rows) ==
    {r \in rows : \A o \in rows : o.root_index <= r.root_index}

\* Storage::get_latest_leaf_count, with the caller's unwrap_or(0).
get_latest_leaf_count(roots, token) ==
    LET rows == LatestRootRows({r \in roots : r.token = token})
    IN  IF rows = {} THEN 0 ELSE (CHOOSE r \in rows : TRUE).leaf_count

\* Storage::get_root_at and get_root_at_with_block: the rows of that key (at most one).
get_root_at(roots, token, root_index) ==
    {r \in roots : r.token = token /\ r.root_index = root_index}

\* Storage::get_root_by_hash and get_root_by_hash_with_block: LIMIT 1 without
\* an order, so any of the matching rows.
get_root_by_hash(roots, token, root_hash) ==
    {r \in roots : r.token = token /\ r.root_hash = root_hash}

\* Storage::get_latest_root
get_latest_root(roots, token) ==
    LatestRootRows({r \in roots : r.token = token})

\* Storage::get_latest_root_before
get_latest_root_before(roots, token, max_block) ==
    LatestRootRows({r \in roots : r.token = token /\ r.block_number <= max_block})

\* Storage::get_commitment: LIMIT 1 without an order, so any matching row.
get_commitment(commitments, commitment) ==
    {r \in commitments : r.commitment = commitment}

\* The rows of a token in leaf_index order, replayed into a tree: the inner
\* loop of Storage::load_trees.  ok is FALSE when an insert_at fails.
RECURSIVE LoadTree(_, _)
LoadTree(rows, acc) ==
    IF rows = {} \/ ~acc.ok THEN acc
    ELSE LET row == CHOOSE r \in rows : \A o \in rows : r.leaf_index <= o.leaf_index
             r   == insert_at(acc.tree, row.leaf_index, parse_felt(row.commitment))
         IN  LoadTree(rows \ {row}, [tree |-> r.tree, ok |-> r.res.tag = "Ok"])

\* Storage::load_trees: a tree per token that has rows; ok is FALSE on an
\* Invariant error.
load_trees(commitments, height) ==
    LET keys == {r.token : r \in commitments}
        one(t) == LoadTree({r \in commitments : r.token = t},
                           [tree |-> new(height), ok |-> TRUE])
    IN  [ok    |-> \A t \in keys : one(t).ok,
         trees |-> [t \in keys |-> one(t).tree]]

\* The rows in descending root_index order, at most max_entries of them, as
\* root-cache entries: Storage::load_recent_roots and the deque built from it.
RECURSIVE RecentRoots(_, _)
RecentRoots(rows, max_entries) ==
    IF rows = {} \/ max_entries = 0 THEN << >>
    ELSE LET row == CHOOSE r \in rows : \A o \in rows : o.root_index <= r.root_index
         IN  << [root_hash |-> row.root_hash, leaf_count |-> row.leaf_count] >>
             \o RecentRoots(rows \ {row}, max_entries - 1)

load_recent_roots(roots, max_entries) ==
    [t \in {r.token : r \in roots} |->
        RecentRoots({r \in roots : r.token = t}, max_entries)]

\* ------------------------------------------------------------------ indexer
\* ensure_known_trees
ensure_known_trees(trees, height, known_tokens) ==
    [t \in (DOMAIN trees) \cup known_tokens |->
        IF t \in DOMAIN trees THEN trees[t] ELSE new(height)]

\* trees.entry(token).or_insert_with(|| MerkleTree::new(height))
TreeEntry(trees, token, height) ==
    IF token \in DOMAIN trees THEN trees[token] ELSE new(height)

TreesPut(trees, token, t) ==
    [k \in (DOMAIN trees) \cup {token} |-> IF k = token THEN t ELSE trees[k]]

\* The scan of resolve_leaf_count_for_root: the first leaf_count in from..to
\* whose root_at is the root.
RECURSIVE ScanLeafCount(_, _, _, _)
ScanLeafCount(t, root, from, to) ==
    IF from > to THEN [some |-> FALSE, val |-> 0]
    ELSE IF root_at(t, from) = SomeFelt(root) THEN [some |-> TRUE, val |-> from]
    ELSE ScanLeafCount(t, root, from + 1, to)

NoCount == [some |-> FALSE, val |-> 0]
SomeCount(n) == [some |-> TRUE, val |-> n]

\* The number of root_at evaluations the scan of resolve_leaf_count_for_root
\* makes from..to: it stops at the first match.
RECURSIVE ScanSteps(_, _, _, _)
ScanSteps(t, root, from, to) ==
    IF from > to THEN 0
    ELSE IF root_at(t, from) = SomeFelt(root) THEN 1
    ELSE 1 + ScanSteps(t, root, from + 1, to)

\* The resolver without the test of the pending leaves against the budget.
ResolveWithin_NoBudget(t, root, last_flushed, budget) ==
    LET current == t.next_index
    IN  IF t.root = root THEN SomeCount(current)
        ELSE IF current <= last_flushed THEN NoCount
        ELSE ScanLeafCount(t, root, last_flushed + 1, current)

\* events.rs resolve_leaf_count_for_root, the step budget being a parameter
\* (the code's is MAX_ROOT_LOOKUP_STEPS).
ResolveWithin(t, root, last_flushed, budget) ==
    LET current == t.next_index
    IN  IF t.root = root THEN SomeCount(current)
        ELSE IF current <= last_flushed THEN NoCount
        ELSE IF current - last_flushed > budget THEN NoCount
        ELSE ScanLeafCount(t, root, last_flushed + 1, current)

\* The root_at evaluations ResolveWithin makes.
ResolveSteps(t, root, last_flushed, budget) ==
    LET current == t.next_index
    IN  IF t.root = root \/ current <= last_flushed
           \/ current - last_flushed > budget THEN 0
        ELSE ScanSteps(t, root, last_flushed + 1, current)

\* resolve_leaf_count_for_root that takes the current leaf count without
\* comparing the tree's root with the announced one.
resolve_leaf_count_for_root_AssumeCurrent(t, root, last_flushed) ==
    SomeCount(t.next_index)

\* events.rs resolve_leaf_count_for_root
resolve_leaf_count_for_root(t, root, last_flushed) ==
    ResolveWithin(t, root, last_flushed, MAX_ROOT_LOOKUP_STEPS)

\* A cache backfill that leaves the pending entries pending.
update_root_cache_leaf_count_Skipped(entries, root_hash, leaf_count) == entries

\* IndexerService::update_root_cache_leaf_count on the entries of one token.
update_root_cache_leaf_count(entries, root_hash, leaf_count) ==
    [i \in 1 .. Len(entries) |->
        IF entries[i].root_hash = root_hash /\ entries[i].leaf_count = 0
        THEN [entries[i] EXCEPT !.leaf_count = leaf_count] ELSE entries[i]]

\* entries.iter().find(|entry| entry.leaf_count == leaf_count): the first such
\* entry disagrees with the root.
CacheDisagrees(entries, root_hash, leaf_count) ==
    LET hits == {i \in 1 .. Len(entries) : entries[i].leaf_count = leaf_count}
    IN  /\ hits # {}
        /\ entries[CHOOSE i \in hits : \A j \in hits : i <= j].root_hash # root_hash

\* push_front of handle_root_updated, then truncate to ROOT_CACHE_LIMIT.
CachePush(entries, root_hash, leaf_count) ==
    LET pushed == << [root_hash |-> root_hash, leaf_count |-> leaf_count] >> \o entries
    IN  IF Len(pushed) > ROOT_CACHE_LIMIT THEN SubSeq(pushed, 1, ROOT_CACHE_LIMIT)
        ELSE pushed

\* ------------------------------------------------------------------- state
VARIABLES
    tree,           \* one MerkleTree, driven directly
    inserted,       \* the leaves that tree accepted as new, in order
    res,            \* the tag of the Result of the last insert_at call
    finality_depth, \* Config.finality_depth
    tree_height,    \* MerkleTree::default_height()
    chain,          \* the canonical chain: chain[b] is the events of block b
    produced,       \* blocks the chain has produced so far
    reorgs,         \* reorganisations so far
    commitments,    \* Store table commitments
    roots,          \* Store table roots
    last_block,     \* Store sync_state.last_block
    trees,          \* AppState.trees: tree key -> MerkleTree
    roots_cache,    \* IndexerService.roots_cache: tree key -> entries, newest first
    commands,       \* IndexerCommand::Resync messages waiting in the channel
    ix,             \* the synchronizer task: where it is in its cycle
    q               \* one POST /path request: where it is in get_path

treeVars  == << tree, inserted, res >>
cfgVars   == << finality_depth, tree_height >>
chainVars == << chain, produced, reorgs >>
storeVars == << commitments, roots, last_block >>
memVars   == << trees, roots_cache >>
aspVars   == << cfgVars, chainVars, storeVars, memVars, commands, ix, q >>
vars      == << treeVars, aspVars >>

\* The synchronizer between two cycles.
IxIdle == [pc |-> "idle", ctx |-> "timer", queue |-> << >>, safe_latest |-> 0,
           new_root |-> 0, leaf_count |-> 0, err |-> "None"]

\* No request in flight.
QIdle == [pc |-> "idle", commitment |-> felt_to_hex(0), token |-> "", leaf_index |-> 0,
          max_block |-> 0]

\* A fresh database and the process start of main.rs run(): the trees of the
\* known tokens, empty.
AspInit ==
    /\ finality_depth \in 0 .. MaxFinality
    /\ tree_height \in Heights
    /\ chain = << >> /\ produced = 0 /\ reorgs = 0
    /\ commitments = {} /\ roots = {} /\ last_block = NoBlock
    /\ trees = ensure_known_trees(<< >>, tree_height, Tokens)
    /\ roots_cache = << >>
    /\ commands = 0
    /\ ix = IxIdle
    /\ q = QIdle

\* ------------------------------------------------------- the tree on its own
\* Indices offered to insert_at: every slot, the capacity and one beyond.
Indices(t) == 0 .. (max_leaves(t.height) + 1)

TreeInit ==
    /\ tree \in {new(h) : h \in Heights}
    /\ inserted = << >>
    /\ res = "None"
    /\ AspInit
    /\ finality_depth = 0 /\ tree_height = 1

\* One call tree.insert_at(index, leaf).  A call that returns Ok without
\* adding a leaf (a replay) is recorded as "Replay".
InsertAt ==
    /\ \E index \in Indices(tree), leaf \in Felts :
        LET r == insert_at(tree, index, leaf)
            added == r.tree.next_index > tree.next_index
        IN  /\ tree' = r.tree
            /\ res' = IF r.res.tag = "Ok" /\ ~added THEN "Replay" ELSE r.res.tag
            /\ inserted' = IF added THEN Append(inserted, leaf) ELSE inserted
    /\ UNCHANGED aspVars

TreeNext == InsertAt

TreeSpec == TreeInit /\ [][TreeNext]_vars

\* ---------------------------------------------------------------- the chain
\* Commitments the contract's users deposit.
Commitments == {c \in Felts : c # FeltZero /\ c # zero_leaf_hash}

RECURSIVE Flatten(_)
Flatten(blocks) ==
    IF blocks = << >> THEN << >> ELSE Head(blocks) \o Flatten(Tail(blocks))

EventsOf(blocks, kind, token) ==
    SelectSeq(Flatten(blocks), LAMBDA e : e.kind = kind /\ e.token = token)

\* The leaves the contract holds for a token, in leaf_index order.
ChainLeaves(blocks, token) ==
    LET deposits == EventsOf(blocks, "Deposit", token)
    IN  [i \in 1 .. Len(deposits) |-> deposits[i].felt]

\* The events of one deposit transaction: Deposit(commitment, leaf_index,
\* token, timestamp) and RootUpdated(old_root, new_root, root_index, token),
\* or their position-tree counterparts when the token is the position key.
DepositTx(blocks, height, token, commitment, root_first) ==
    LET leaves  == ChainLeaves(blocks, token)
        deposit == [kind |-> "Deposit", token |-> token, felt |-> commitment,
                    index |-> Len(leaves)]
        root    == [kind |-> "RootUpdated", token |-> token,
                    felt |-> Replay(height, Append(leaves, commitment)).root,
                    index |-> Len(EventsOf(blocks, "RootUpdated", token)) + 1]
    IN  IF root_first THEN << root, deposit >> ELSE << deposit, root >>

\* provider.block_number()
BlockNumber == Len(chain)

\* provider.get_events(from_block ..= to_block), all pages, each event with
\* its block number.
RECURSIVE GetEvents(_, _)
GetEvents(from_block, to_block) ==
    IF from_block > to_block THEN << >>
    ELSE (IF from_block = 0 THEN << >>
          ELSE [i \in 1 .. Len(chain[from_block]) |->
                   [event |-> chain[from_block][i], block_number |-> from_block]])
         \o GetEvents(from_block + 1, to_block)

\* A root no tree has: poseidon_hash never returns it.
BadRoot == FeltZero

\* A Deposit event that skips a leaf index: the contract's next index plus one.
SkippedDeposit(blocks, token, commitment) ==
    [kind |-> "Deposit", token |-> token, felt |-> commitment,
     index |-> Len(ChainLeaves(blocks, token)) + 1]

\* A RootUpdated event that announces a root the deposits do not produce.
DivergentRoot(blocks, token) ==
    [kind |-> "RootUpdated", token |-> token, felt |-> BadRoot,
     index |-> Len(EventsOf(blocks, "RootUpdated", token)) + 1]

\* The events of the chain that a correct contract would not have emitted.
Faulty(blocks) ==
    LET events == Flatten(blocks)
        count(token, i) ==
            Len(SelectSeq(SubSeq(events, 1, i - 1),
                          LAMBDA e : e.kind = "Deposit" /\ e.token = token))
    IN  {i \in DOMAIN events :
            \/ events[i].kind = "RootUpdated" /\ events[i].felt = BadRoot
            \/ events[i].kind = "Deposit"
               /\ events[i].index # count(events[i].token, i)}

\* The chain produces a block: empty, or holding one deposit transaction of a
\* commitment the tree does not hold yet, or two such transactions for the
\* same tree, or holding one event of a contract gone wrong (a skipped leaf
\* index, a root that matches no deposits).
\* The synchronizer reads the chain only when a cycle begins, so blocks that
\* arrive during a cycle are the same to it as blocks that arrive after it;
\* get_path does not read the chain.
ChainBlock ==
    /\ ix.pc = "idle" /\ q.pc = "idle"
    /\ produced < MaxBlocks
    /\ produced' = produced + 1
    /\ \/ chain' = Append(chain, << >>)
       \/ \E token \in Tokens, commitment \in Commitments, root_first \in BOOLEAN :
            /\ Faulty(chain) = {}
            /\ Len(ChainLeaves(chain, token)) < max_leaves(tree_height)
            /\ \A i \in DOMAIN ChainLeaves(chain, token) :
                    ChainLeaves(chain, token)[i] # commitment
            /\ chain' = Append(chain,
                   DepositTx(chain, tree_height, token, commitment, root_first))
       \/ \E token \in Tokens, first \in Commitments, second \in Commitments :
            /\ Faulty(chain) = {}
            /\ first # second
            /\ Len(ChainLeaves(chain, token)) + 2 <= max_leaves(tree_height)
            /\ \A i \in DOMAIN ChainLeaves(chain, token) :
                    ChainLeaves(chain, token)[i] \notin {first, second}
            /\ LET tx1 == DepositTx(chain, tree_height, token, first, FALSE)
                   tx2 == DepositTx(Append(chain, tx1), tree_height, token, second, FALSE)
               IN  chain' = Append(chain, tx1 \o tx2)
       \/ \E token \in Tokens, commitment \in Commitments :
            /\ Cardinality(Faulty(chain)) < MaxFaults
            /\ \A i \in DOMAIN ChainLeaves(chain, token) :
                    ChainLeaves(chain, token)[i] # commitment
            /\ chain' = Append(chain, << SkippedDeposit(chain, token, commitment) >>)
       \/ \E token \in Tokens :
            /\ Cardinality(Faulty(chain)) < MaxFaults
            /\ chain' = Append(chain, << DivergentRoot(chain, token) >>)
    /\ UNCHANGED << treeVars, cfgVars, reorgs, storeVars, memVars, commands, ix, q >>

\* The chain drops its latest blocks.
Reorg ==
    /\ ix.pc = "idle" /\ q.pc = "idle"
    /\ reorgs < MaxReorgs
    /\ reorgs' = reorgs + 1
    /\ \E kept \in 0 .. (Len(chain) - 1) : chain' = SubSeq(chain, 1, kept)
    /\ UNCHANGED << treeVars, cfgVars, produced, storeVars, memVars, commands, ix, q >>

\* ---------------------------------------------------------- the synchronizer
\* config.start_block
start_block == 0

\* The trees write lock is free: no get_path holds the read lock.
LockFree == q.pc # "locked"

\* The synchronizer holds the write guard of the tree map across an await:
\* sync_once between trees.write() and the end of the reload block.  Every
\* other write guard is taken and dropped within one step.
WriteLockHeld == ix.pc = "reload"

\* run() that starts a resync on an Invariant error only and logs a Desync.
Fail_DesyncLogged(kind) ==
    IF ix.ctx = "timer" /\ kind = "Invariant"
    THEN [IxIdle EXCEPT !.pc = "reset", !.ctx = "resync", !.err = kind]
    ELSE [IxIdle EXCEPT !.err = kind]

\* How run() and resync() treat an error of sync_once: in a timer cycle a
\* Desync or Invariant error starts a resync, any other error is logged; an
\* error inside a resync is logged.  err is the error just returned; it is
\* forgotten when the next sync_once begins.
Fail(kind) ==
    IF ix.ctx = "timer" /\ kind \in {"Desync", "Invariant"}
    THEN [IxIdle EXCEPT !.pc = "reset", !.ctx = "resync", !.err = kind]
    ELSE [IxIdle EXCEPT !.err = kind]

\* A loop over the events that ends after the first one.
NextEvent_FinishEarly ==
    [ix EXCEPT !.pc = "finish", !.queue = Tail(ix.queue), !.new_root = 0, !.leaf_count = 0]

\* The synchronizer after the handler of the current event returned Ok.
NextEvent ==
    [ix EXCEPT !.pc = IF Len(ix.queue) > 1 THEN "event" ELSE "finish",
               !.queue = Tail(ix.queue), !.new_root = 0, !.leaf_count = 0]

\* sync_once: latest.saturating_sub(finality_depth)
SafeLatest ==
    IF BlockNumber > finality_depth THEN BlockNumber - finality_depth ELSE 0

\* sync_once: the block the fetch starts from
FromBlock == IF last_block.some THEN last_block.val ELSE start_block

\* sync_once without the comparison of the checkpoint with safe_latest.
SyncOnce_NoReorgCheck(ctx) ==
    LET safe_latest == SafeLatest
        from_block  == FromBlock
        rebuilt     == load_trees(commitments, tree_height)
        events      == GetEvents(from_block, safe_latest)
        begun       == [IxIdle EXCEPT !.ctx = ctx]
    IN  IF last_block.some /\ ~rebuilt.ok
        THEN /\ ix' = Fail("Invariant")
             /\ UNCHANGED memVars
        ELSE /\ LockFree
             /\ trees' = ensure_known_trees(
                    IF last_block.some THEN rebuilt.trees ELSE trees, tree_height, Tokens)
             /\ UNCHANGED roots_cache
             /\ ix' = IF last_block.some
                      THEN [begun EXCEPT !.pc = "reload", !.safe_latest = safe_latest]
                      ELSE IF from_block > safe_latest THEN IxIdle
                      ELSE [begun EXCEPT
                               !.pc = IF events = << >> THEN "finish" ELSE "event",
                               !.queue = events, !.safe_latest = safe_latest]

\* sync_once up to storage.load_recent_roots: the reorg check and the reload of
\* the trees from the Store under trees.write(); without a checkpoint, up to
\* the fetch of the events.  With a checkpoint the write guard stays alive
\* while load_recent_roots is awaited (pc "reload").
SyncOnce(ctx) ==
    LET safe_latest == SafeLatest
        from_block  == FromBlock
        rebuilt     == load_trees(commitments, tree_height)
        events      == GetEvents(from_block, safe_latest)
        begun       == [IxIdle EXCEPT !.ctx = ctx]
    IN  IF last_block.some /\ last_block.val > safe_latest
        THEN /\ ix' = Fail("Desync")
             /\ UNCHANGED memVars
        ELSE IF last_block.some /\ ~rebuilt.ok
        THEN /\ ix' = Fail("Invariant")
             /\ UNCHANGED memVars
        ELSE /\ LockFree
             /\ trees' = ensure_known_trees(
                    IF last_block.some THEN rebuilt.trees ELSE trees, tree_height, Tokens)
             /\ UNCHANGED roots_cache
             /\ ix' = IF last_block.some
                      THEN [begun EXCEPT !.pc = "reload", !.safe_latest = safe_latest]
                      ELSE IF from_block > safe_latest THEN IxIdle
                      ELSE [begun EXCEPT
                               !.pc = IF events = << >> THEN "finish" ELSE "event",
                               !.queue = events, !.safe_latest = safe_latest]

\* sync_once from the answer of storage.load_recent_roots: the root cache is
\* replaced, both write guards are dropped, and the events are fetched.
SyncReload ==
    /\ ix.pc = "reload"
    /\ roots_cache' = load_recent_roots(roots, ROOT_CACHE_LIMIT)
    /\ LET events == GetEvents(FromBlock, ix.safe_latest)
       IN  ix' = IF FromBlock > ix.safe_latest THEN IxIdle
                 ELSE [ix EXCEPT !.pc = IF events = << >> THEN "finish" ELSE "event",
                                 !.queue = events]
    /\ UNCHANGED << treeVars, cfgVars, chainVars, storeVars, trees, commands, q >>

\* interval.tick(): a timer cycle begins.  Cycles that keep failing without a
\* checkpoint grow the root cache up to ROOT_CACHE_LIMIT; the model follows the
\* growth up to MaxCacheLen entries.
Tick ==
    /\ ix.pc = "idle"
    /\ \A token \in DOMAIN roots_cache : Len(roots_cache[token]) <= MaxCacheLen
    /\ SyncOnce("timer")
    /\ UNCHANGED << treeVars, cfgVars, chainVars, storeVars, commands, q >>

\* POST /resync puts IndexerCommand::Resync into the channel, at any moment:
\* trigger_sync runs on the HTTP tasks, beside the synchronizer task.
PostResync ==
    /\ commands < MaxCommands
    /\ commands' = commands + 1
    /\ UNCHANGED << treeVars, cfgVars, chainVars, storeVars, memVars, ix, q >>

\* A receive that takes the command at whatever point the synchronizer is and
\* abandons the cycle in flight.
RecvResync_Preempting ==
    /\ commands > 0
    /\ commands' = commands - 1
    /\ ix' = [IxIdle EXCEPT !.pc = "reset", !.ctx = "resync"]
    /\ UNCHANGED << treeVars, cfgVars, chainVars, storeVars, memVars, q >>

\* command_rx.recv() yields Resync: resync() begins.
RecvResync ==
    /\ ix.pc = "idle"
    /\ commands > 0
    /\ commands' = commands - 1
    /\ ix' = [IxIdle EXCEPT !.pc = "reset", !.ctx = "resync"]
    /\ UNCHANGED << treeVars, cfgVars, chainVars, storeVars, memVars, q >>

\* A reset that truncates commitments and sync_state and keeps the roots.
ResyncReset_KeepRoots ==
    /\ ix.pc = "reset"
    /\ commitments' = {} /\ roots' = roots /\ last_block' = NoBlock
    /\ ix' = [ix EXCEPT !.pc = "clear"]
    /\ UNCHANGED << treeVars, cfgVars, chainVars, memVars, commands, q >>

\* resync(): storage.reset()
ResyncReset ==
    /\ ix.pc = "reset"
    /\ commitments' = {} /\ roots' = {} /\ last_block' = NoBlock
    /\ ix' = [ix EXCEPT !.pc = "clear"]
    /\ UNCHANGED << treeVars, cfgVars, chainVars, memVars, commands, q >>

\* A resync that clears the trees and leaves the root cache as it was.
ResyncClear_KeepCache ==
    /\ ix.pc = "clear"
    /\ LockFree
    /\ trees' = << >> /\ roots_cache' = roots_cache
    /\ ix' = [ix EXCEPT !.pc = "sync"]
    /\ UNCHANGED << treeVars, cfgVars, chainVars, storeVars, commands, q >>

\* resync(): trees.clear() and roots_cache.clear() under the write locks
ResyncClear ==
    /\ ix.pc = "clear"
    /\ LockFree
    /\ trees' = << >> /\ roots_cache' = << >>
    /\ ix' = [ix EXCEPT !.pc = "sync"]
    /\ UNCHANGED << treeVars, cfgVars, chainVars, storeVars, commands, q >>

\* A resync() that resets and clears and returns without sync_once().
ResyncSync_Skipped ==
    /\ ix.pc = "sync"
    /\ ix' = IxIdle
    /\ UNCHANGED << treeVars, cfgVars, chainVars, storeVars, memVars, commands, q >>

\* resync(): sync_once()
ResyncSync ==
    /\ ix.pc = "sync"
    /\ SyncOnce("resync")
    /\ UNCHANGED << treeVars, cfgVars, chainVars, storeVars, commands, q >>

\* The event process_event is about to handle.
CurrentEvent == Head(ix.queue).event
CurrentBlock == Head(ix.queue).block_number

CacheOf(token) == IF token \in DOMAIN roots_cache THEN roots_cache[token] ELSE << >>

\* handle_deposit that goes on to the tree without having persisted the
\* CommitmentRecord.
HandleDepositStore_TreeFirst ==
    /\ ix.pc = "event"
    /\ CurrentEvent.kind = "Deposit"
    /\ ix' = [ix EXCEPT !.pc = "deposit_tree"]
    /\ UNCHANGED << treeVars, cfgVars, chainVars, storeVars, memVars, commands, q >>

\* handle_deposit / handle_position_commitment: storage.insert_commitment
HandleDepositStore ==
    /\ ix.pc = "event"
    /\ CurrentEvent.kind = "Deposit"
    /\ LET record == [token |-> CurrentEvent.token, leaf_index |-> CurrentEvent.index,
                      commitment |-> felt_to_hex(CurrentEvent.felt),
                      block_number |-> CurrentBlock]
           r == insert_commitment(commitments, record)
       IN  /\ commitments' = r.rows
           /\ ix' = IF r.res = "Ok" THEN [ix EXCEPT !.pc = "deposit_tree"] ELSE Fail(r.res)
    /\ UNCHANGED << treeVars, cfgVars, chainVars, roots, last_block, memVars, commands, q >>

\* handle_deposit / handle_position_commitment: tree.insert_at under the
\* trees write lock
HandleDepositTree ==
    /\ ix.pc = "deposit_tree"
    /\ LockFree
    /\ LET token == CurrentEvent.token
           t == TreeEntry(trees, token, tree_height)
           r == insert_at(t, CurrentEvent.index, CurrentEvent.felt)
       IN  /\ trees' = TreesPut(trees, token, r.tree)
           /\ ix' = IF r.res.tag = "Ok"
                    THEN [ix EXCEPT !.pc = "deposit_roots", !.new_root = r.res.root,
                                    !.leaf_count = r.tree.next_index]
                    ELSE Fail("Invariant")
    /\ UNCHANGED << treeVars, cfgVars, chainVars, storeVars, roots_cache, commands, q >>

\* handle_deposit / handle_position_commitment: storage.update_root_leaf_count
HandleDepositRoots ==
    /\ ix.pc = "deposit_roots"
    /\ LET r == update_root_leaf_count(roots, CurrentEvent.token,
                                       felt_to_hex(ix.new_root), ix.leaf_count)
       IN  /\ roots' = r.rows
           /\ ix' = IF r.res = "Ok" THEN [ix EXCEPT !.pc = "deposit_cache"] ELSE Fail(r.res)
    /\ UNCHANGED << treeVars, cfgVars, chainVars, commitments, last_block, memVars,
                    commands, q >>

\* handle_deposit / handle_position_commitment: update_root_cache_leaf_count
\* and the comparison with the root cache
HandleDepositCache ==
    /\ ix.pc = "deposit_cache"
    /\ LET token == CurrentEvent.token
           new_root_hex == felt_to_hex(ix.new_root)
           entries == update_root_cache_leaf_count(CacheOf(token), new_root_hex,
                                                   ix.leaf_count)
       IN  /\ roots_cache' = IF token \in DOMAIN roots_cache
                             THEN [roots_cache EXCEPT ![token] = entries]
                             ELSE roots_cache
           /\ ix' = IF CacheDisagrees(entries, new_root_hex, ix.leaf_count)
                    THEN Fail("Desync") ELSE NextEvent
    /\ UNCHANGED << treeVars, cfgVars, chainVars, storeVars, trees, commands, q >>

\* handle_root_updated / handle_position_root_updated
HandleRootUpdated ==
    /\ ix.pc = "event"
    /\ CurrentEvent.kind = "RootUpdated"
    /\ LockFree
    /\ LET token == CurrentEvent.token
           new_root == CurrentEvent.felt
           last_flushed == get_latest_leaf_count(roots, token)
           t == TreeEntry(trees, token, tree_height)
           resolved == resolve_leaf_count_for_root(t, new_root, last_flushed)
           expected_root == IF resolved.some THEN root_at(t, resolved.val) ELSE NoFelt
           leaf_count == IF resolved.some THEN resolved.val ELSE 0
           new_root_hex == felt_to_hex(new_root)
           record == [token |-> token, root_index |-> CurrentEvent.index,
                      root_hash |-> new_root_hex, block_number |-> CurrentBlock,
                      leaf_count |-> leaf_count]
           r == insert_root(roots, record)
       IN  /\ trees' = TreesPut(trees, token, t)
           /\ roots' = r.rows
           /\ IF r.res # "Ok"
              THEN /\ ix' = Fail(r.res)
                   /\ UNCHANGED roots_cache
              ELSE /\ roots_cache' =
                        [k \in (DOMAIN roots_cache) \cup {token} |->
                            IF k = token THEN CachePush(CacheOf(token), new_root_hex, leaf_count)
                            ELSE roots_cache[k]]
                   /\ ix' = IF expected_root.some /\ expected_root.val # new_root
                            THEN Fail("Desync") ELSE NextEvent
    /\ UNCHANGED << treeVars, cfgVars, chainVars, commitments, last_block, commands, q >>

\* A cycle that ends by writing the block before safe_latest, so that the
\* next cycle scans the last block again.
SyncFinish_OneBehind ==
    /\ ix.pc = "finish"
    /\ last_block' = SomeBlock(IF ix.safe_latest > 0 THEN ix.safe_latest - 1 ELSE 0)
    /\ ix' = IxIdle
    /\ UNCHANGED << treeVars, cfgVars, chainVars, commitments, roots, memVars,
                    commands, q >>

\* sync_once: storage.set_last_block(safe_latest)
SyncFinish ==
    /\ ix.pc = "finish"
    /\ last_block' = SomeBlock(ix.safe_latest)
    /\ ix' = IxIdle
    /\ UNCHANGED << treeVars, cfgVars, chainVars, commitments, roots, memVars,
                    commands, q >>

\* ------------------------------------------------------------ query service
\* main.rs finality_block
finality_block ==
    LET latest == IF last_block.some THEN last_block.val ELSE 0
    IN  IF latest > finality_depth THEN latest - finality_depth ELSE 0

\* main.rs resolve_leaf_count_for_root_hash from parse_felt on, the step budget
\* being a parameter (the code's is MAX_ROOT_LOOKUP_STEPS).
QueryResolveWithin(t, root_felt, last_flushed, budget) ==
    LET current_leaf_count == t.next_index
        pending == IF current_leaf_count > last_flushed
                   THEN current_leaf_count - last_flushed ELSE 0
    IN  IF t.root = root_felt THEN SomeCount(current_leaf_count)
        ELSE IF pending > budget THEN NoCount
        ELSE IF current_leaf_count <= last_flushed THEN NoCount
        ELSE ScanLeafCount(t, root_felt, last_flushed + 1, current_leaf_count)

\* The root_at evaluations QueryResolveWithin makes.
QueryResolveSteps(t, root_felt, last_flushed, budget) ==
    LET current_leaf_count == t.next_index
        pending == IF current_leaf_count > last_flushed
                   THEN current_leaf_count - last_flushed ELSE 0
    IN  IF t.root = root_felt \/ pending > budget
           \/ current_leaf_count <= last_flushed THEN 0
        ELSE ScanSteps(t, root_felt, last_flushed + 1, current_leaf_count)

\* main.rs resolve_leaf_count_for_root_hash after its Store lookup: the
\* current root, then the scan from last_flushed + 1 to next_index.
ResolveInTree(t, token, root_hash) ==
    QueryResolveWithin(t, parse_felt(root_hash), get_latest_leaf_count(roots, token),
                       MAX_ROOT_LOOKUP_STEPS)

\* main.rs resolve_leaf_count_for_root_hash: the results it can return, one
\* for each row the unordered LIMIT 1 lookup by hash can yield.
resolve_leaf_count_for_root_hash(t, token, root_hash, max_block, enforce_block) ==
    LET stored == get_root_by_hash(roots, token, root_hash)
        with(row) ==
            IF enforce_block /\ row.block_number > max_block THEN NoCount
            ELSE IF row.leaf_count # 0 \/ row.root_index = 0 THEN SomeCount(row.leaf_count)
            ELSE ResolveInTree(t, token, root_hash)
    IN  IF stored = {} THEN {ResolveInTree(t, token, root_hash)}
        ELSE {with(row) : row \in stored}

\* A response of get_path.  The PathResponse body is token, leaf_index, path
\* and indices; root and leaf_count are the resolved pair the path was built
\* for, and mode is the selector the request carried.
PathResponse(status, mode, root, leaf_count, p) ==
    [status |-> status, mode |-> mode, root |-> root, leaf_count |-> leaf_count,
     token |-> q.token, leaf_index |-> q.leaf_index,
     path |-> [i \in DOMAIN p.path |-> felt_to_hex(p.path[i])], indices |-> p.indices]

PathError(status, mode) == PathResponse(status, mode, 0, 0, NoPath)

\* get_path from the resolved (expected_root, leaf_count) to the response.
PathFor(t, mode, expected_root, leaf_count) ==
    IF ~leaf_count.some \/ leaf_count.val = 0 THEN PathError(404, mode)
    ELSE LET expected == root_at(t, leaf_count.val)
             p == get_path_at(t, q.leaf_index, leaf_count.val)
         IN  IF expected.some /\ expected.val # expected_root THEN PathError(500, mode)
             ELSE IF ~p.some THEN PathError(404, mode)
             ELSE PathResponse(200, mode, expected_root, leaf_count.val, p)

\* get_path with payload.root_index: the responses it can give.
PathByIndex(t, root_index) ==
    LET rows == get_root_at(roots, q.token, root_index)
        with(row) ==
            IF finality_depth # 0 /\ row.block_number > q.max_block
            THEN {PathError(404, "root_index")}
            ELSE IF row.leaf_count # 0
            THEN {PathFor(t, "root_index", parse_felt(row.root_hash),
                          SomeCount(row.leaf_count))}
            ELSE {PathFor(t, "root_index", parse_felt(row.root_hash), n) :
                    n \in resolve_leaf_count_for_root_hash(t, q.token, row.root_hash,
                                                           q.max_block, finality_depth # 0)}
    IN  IF rows = {} THEN {PathError(404, "root_index")}
        ELSE UNION {with(row) : row \in rows}

\* get_path with payload.root_hash: the responses it can give.
PathByHash(t, root_hash) ==
    {PathFor(t, "root_hash", parse_felt(root_hash), n) :
        n \in resolve_leaf_count_for_root_hash(t, q.token, root_hash, q.max_block,
                                               finality_depth # 0)}

\* get_path with neither selector.
PathLatest(t) == PathFor(t, "none", t.root, SomeCount(t.next_index))

\* Commitment strings a client asks for.
QueryCommitments ==
    {felt_to_hex(c) : c \in Commitments} \cup {OtherSpelling(c) : c \in Commitments}

\* Root hash strings a client asks for: roots of the tree and of the Store in
\* both spellings, and one hash that is no root.
QueryRootHashes(t) ==
    LET felts == {root_at(t, n).val : n \in 0 .. t.next_index}
                 \cup {parse_felt(r.root_hash) : r \in roots} \cup {FeltZero}
    IN  {felt_to_hex(f) : f \in felts} \cup {OtherSpelling(f) : f \in felts}

\* Root indices a client asks for.
QueryRootIndices == 0 .. (MaxBlocks + 1)

\* The responses get_path can give to the request that holds the read lock,
\* over the selectors the request may carry.
PathResponses ==
    IF q.pc # "locked" THEN {}
    ELSE LET t == trees[q.token]
         IN  {PathLatest(t)}
             \cup UNION {PathByIndex(t, root_index) : root_index \in QueryRootIndices}
             \cup UNION {PathByHash(t, root_hash) : root_hash \in QueryRootHashes(t)}

\* get_path: both selectors given, 400 at once
PathBadRequest ==
    /\ q.pc = "idle"
    /\ UNCHANGED << treeVars, cfgVars, chainVars, storeVars, memVars, commands, ix, q >>

\* get_path: finality_block and storage.get_commitment; 404 when the Store
\* has no such commitment
PathLookup ==
    /\ q.pc = "idle"
    /\ \E commitment \in QueryCommitments :
        LET found == get_commitment(commitments, commitment)
        IN  IF found = {}
            THEN q' = QIdle
            ELSE \E row \in found :
                    q' = [pc |-> "found", commitment |-> commitment,
                          token |-> row.token, leaf_index |-> row.leaf_index,
                          max_block |-> IF row.block_number > finality_block
                                        THEN row.block_number ELSE finality_block]
    /\ UNCHANGED << treeVars, cfgVars, chainVars, storeVars, memVars, commands, ix >>

\* get_path that takes the tree with entry().or_insert_with(), as the
\* synchronizer does, and so creates the tree it does not find.
PathLock_OrInsert ==
    /\ q.pc = "found"
    /\ ~WriteLockHeld
    /\ q' = [q EXCEPT !.pc = "locked"]
    /\ trees' = TreesPut(trees, q.token, TreeEntry(trees, q.token, tree_height))
    /\ UNCHANGED << treeVars, cfgVars, chainVars, storeVars, roots_cache, commands, ix >>

\* get_path: state.trees.read() and trees.get(&token), 404 when there is no
\* such tree.  The read lock is granted unless the synchronizer holds the
\* write guard across an await.
PathLock ==
    /\ q.pc = "found"
    /\ ~WriteLockHeld
    /\ q' = IF q.token \in DOMAIN trees THEN [q EXCEPT !.pc = "locked"] ELSE QIdle
    /\ UNCHANGED << treeVars, cfgVars, chainVars, storeVars, memVars, commands, ix >>

\* A get_path that takes the root-cache lock under the read guard, beside a
\* handle_deposit that holds the root-cache lock from its start to its end.
PathResolve_CacheUnderGuard ==
    /\ q.pc = "locked"
    /\ ix.pc \notin {"deposit_tree", "deposit_roots", "deposit_cache"}
    /\ PathResponses # {}
    /\ q' = QIdle
    /\ UNCHANGED << treeVars, cfgVars, chainVars, storeVars, memVars, commands, ix >>

\* get_path under the read lock: the selector's Store reads, the root check
\* and the path; the response leaves and the lock is released.
PathResolve ==
    /\ q.pc = "locked"
    /\ PathResponses # {}
    /\ q' = QIdle
    /\ UNCHANGED << treeVars, cfgVars, chainVars, storeVars, memVars, commands, ix >>

\* main.rs get_insert_path: the response of POST /insert_path for a token,
\* built from the tree map the handler holds the read lock of.
get_insert_path(locked_trees, token) ==
    IF token \notin DOMAIN locked_trees
    THEN [status |-> 404, token |-> token, root |-> felt_to_hex(FeltZero),
          commitment |-> felt_to_hex(FeltZero), leaf_index |-> 0,
          path |-> << >>, indices |-> << >>]
    ELSE LET t == locked_trees[token]
             leaf_count == t.next_index
             root_hash == felt_to_hex(t.root)
             p == insertion_path_at(t, leaf_count)
         IN  IF ~p.some
             THEN [status |-> 400, token |-> token, root |-> felt_to_hex(FeltZero),
                   commitment |-> felt_to_hex(FeltZero), leaf_index |-> 0,
                   path |-> << >>, indices |-> << >>]
             ELSE [status |-> 200, token |-> token, root |-> root_hash,
                   commitment |-> felt_to_hex(zero_leaf_hash), leaf_index |-> p.leaf_index,
                   path |-> [i \in DOMAIN p.path |-> felt_to_hex(p.path[i])],
                   indices |-> p.indices]

\* A response of get_root_latest.
RootAtResponse(status, token, root_index, root, leaf_count) ==
    [status |-> status, token |-> token, root_index |-> root_index, root |-> root,
     leaf_count |-> leaf_count]

\* main.rs get_root_latest: the responses GET /root/latest can give for a token.
get_root_latest(token) ==
    IF token \notin DOMAIN trees THEN {RootAtResponse(404, token, 0, felt_to_hex(0), 0)}
    ELSE
    LET tree_snapshot == trees[token]
        root == tree_snapshot.root
        root_hex == felt_to_hex(root)
        max_block == finality_block
        latest == IF finality_depth = 0 THEN get_latest_root(roots, token)
                  ELSE get_latest_root_before(roots, token, max_block)
        plain == RootAtResponse(200, token, 0, root_hex, tree_snapshot.next_index)
        settle(root_index, leaf_count) ==
            RootAtResponse(200, token,
                           IF leaf_count = 0 /\ root_index # 0 THEN 0 ELSE root_index,
                           root_hex, leaf_count)
        with(row) ==
            IF parse_felt(row.root_hash) # root THEN {plain}
            ELSE IF row.leaf_count # 0 THEN {settle(row.root_index, row.leaf_count)}
            ELSE IF tree_snapshot.next_index = 0 /\ row.root_index # 0
            THEN {settle(row.root_index,
                         IF n.some THEN n.val ELSE tree_snapshot.next_index) :
                    n \in resolve_leaf_count_for_root_hash(
                            tree_snapshot, token, row.root_hash, max_block,
                            finality_depth # 0)}
            ELSE {settle(row.root_index, tree_snapshot.next_index)}
    IN  IF latest = {} THEN {plain} ELSE UNION {with(row) : row \in latest}

\* ------------------------------------------------------------ specification
Init ==
    /\ tree = new(1) /\ inserted = << >> /\ res = "None"
    /\ AspInit

Next ==
    \/ ChainBlock
    \/ Reorg
    \/ Tick
    \/ SyncReload
    \/ PostResync
    \/ RecvResync
    \/ ResyncReset
    \/ ResyncClear
    \/ ResyncSync
    \/ HandleDepositStore
    \/ HandleDepositTree
    \/ HandleDepositRoots
    \/ HandleDepositCache
    \/ HandleRootUpdated
    \/ SyncFinish
    \/ PathBadRequest
    \/ PathLookup
    \/ PathLock
    \/ PathResolve

Spec == Init /\ [][Next]_vars

\* The steps by which the synchronizer task goes on with a cycle or a resync
\* that it has begun.
CycleStep ==
    \/ SyncReload
    \/ ResyncReset
    \/ ResyncClear
    \/ ResyncSync
    \/ HandleDepositStore
    \/ HandleDepositTree
    \/ HandleDepositRoots
    \/ HandleDepositCache
    \/ HandleRootUpdated
    \/ SyncFinish

\* The service starts when the chain holds one block without events and has
\* one more block to come.
FairInit ==
    /\ tree = new(1) /\ inserted = << >> /\ res = "None"
    /\ finality_depth \in 0 .. MaxFinality /\ tree_height \in Heights
    /\ chain = << << >> >> /\ produced = MaxBlocks - 1 /\ reorgs = 0
    /\ commitments = {} /\ roots = {} /\ last_block = NoBlock
    /\ trees = ensure_known_trees(<< >>, tree_height, Tokens)
    /\ roots_cache = << >>
    /\ commands = 0
    /\ ix = IxIdle
    /\ q = QIdle

\* The scheduling the runtime gives: the synchronizer task goes on with what
\* it has begun whenever it can (a writer waiting for the tree map is served
\* before later readers, so requests that come and go do not starve it),
\* select! takes a waiting command when the task is between cycles, and a
\* request that holds the read lock answers and drops it.  Nothing is assumed
\* of the timer.
FairSpec ==
    /\ FairInit /\ [][Next]_vars
    /\ SF_vars(CycleStep)
    /\ SF_vars(RecvResync)
    /\ WF_vars(PathResolve)

\* -------------------------------------------------------------- properties
\* The root a client re-derives from a 200 response of get_path: the fold of
\* the commitment it asked for with the returned siblings and flags.
PathFold(r) ==
    compute_root_from_path(parse_felt(q.commitment),
                           [i \in DOMAIN r.path |-> parse_felt(r.path[i])], r.indices)

\* C1: every successful POST /path response, whichever selector the request
\* carried, folds to a root hash for which a RootRecord of that tree is
\* persisted.
C1_PathRootIsPersisted ==
    \A r \in PathResponses :
        r.status = 200 =>
            \E record \in roots :
                /\ record.token = r.token
                /\ parse_felt(record.root_hash) = PathFold(r)

\* C2: every successful POST /path response folds to the root it was resolved
\* for, and a response to a request without selector folds to the root that
\* GET /root/latest reports for that tree at that moment.
C2_PathFoldsToResolvedRoot ==
    \A r \in PathResponses :
        r.status = 200 =>
            /\ PathFold(r) = r.root
            /\ r.mode = "none" =>
                 \A latest \in get_root_latest(r.token) :
                    latest.status = 200 /\ parse_felt(latest.root) = PathFold(r)

\* C3: after any sequence of valid insert_at calls, root_at(next_index())
\* is the cached root().
C3_RootAtNextIndexIsRoot ==
    root_at(tree, tree.next_index) = SomeFelt(tree.root)

C3_Witness ==
    /\ tree.next_index >= 3
    /\ res = "Ok"
    /\ tree.root # new(tree.height).root

\* C4: for every k <= n, root_at(k) on the full tree is the root of a fresh
\* tree of the same height holding only the first k inserted leaves (k = 0:
\* the empty root); the prefix never changes, so later inserts keep root_at(k).
C4_RootAtMatchesPrefixTree ==
    /\ Len(inserted) = tree.next_index
    /\ \A k \in 0 .. Len(inserted) :
          root_at(tree, k) = SomeFelt(Replay(tree.height, SubSeq(inserted, 1, k)).root)
    /\ root_at(tree, 0) = SomeFelt(new(tree.height).root)

C4_Witness ==
    /\ tree.next_index >= 3
    /\ \E k \in 1 .. tree.next_index - 1 : root_at(tree, k) # SomeFelt(tree.root)

\* C5: for leaf_index < leaf_count <= next_index, get_path_at returns height
\* siblings and flags, and folding the leaf stored at leaf_index along them
\* gives root_at(leaf_count); for every other pair it returns no path.
C5_PathFoldsToRootAt ==
    \A leaf_count \in Indices(tree) :
        LET expected == root_at(tree, leaf_count)
        IN  \A leaf_index \in Indices(tree) :
                LET p == get_path_at(tree, leaf_index, leaf_count)
                IN  IF leaf_index < leaf_count /\ leaf_count <= tree.next_index
                    THEN /\ p.some
                         /\ Len(p.path) = tree.height
                         /\ Len(p.indices) = tree.height
                         /\ \A l \in 1 .. tree.height :
                               p.indices[l] = (((leaf_index \div Pow2(l - 1)) % 2) = 1)
                         /\ SomeFelt(compute_root_from_path(inserted[leaf_index + 1],
                                                            p.path, p.indices))
                               = expected
                    ELSE ~p.some

C5_Witness ==
    /\ tree.next_index >= 3
    /\ get_path_at(tree, 1, 2).some
    /\ get_path_at(tree, 1, 2).path # get_path_at(tree, 1, tree.next_index).path

\* C6 (as claimed): in every reachable tree state, a full tree included,
\* insert_at(index, leaf) with index < next_index and the stored leaf
\* succeeds, changes nothing and returns the current root.
C6_ReplayIsNoOp ==
    \A index \in Indices(tree) :
        index < tree.next_index =>
            insert_at(tree, index, StoredLeaf(tree, index))
                = [tree |-> tree, res |-> Ok(index, tree.root)]

\* C7 (as claimed): insert_at(index, leaf) with index < next_index and a valid
\* leaf other than the stored one fails with LeafMismatch, tree unchanged.
C7_ReplayMismatchFails ==
    \A index \in Indices(tree), leaf \in Felts :
        (index < tree.next_index /\ ValidLeaf(tree, leaf)
            /\ leaf # StoredLeaf(tree, index)) =>
            insert_at(tree, index, leaf) = [tree |-> tree, res |-> Err("LeafMismatch")]

\* C8 (as claimed): any index > next_index with a valid leaf fails with
\* IndexGap, tree unchanged.
C8_GapFailsWithIndexGap ==
    \A index \in Indices(tree), leaf \in Felts :
        (index > tree.next_index /\ ValidLeaf(tree, leaf)) =>
            insert_at(tree, index, leaf) = [tree |-> tree, res |-> Err("IndexGap")]

\* C8 (amended): an index > next_index with a valid leaf always fails and
\* leaves the tree unchanged: with IndexGap when index < 2^height, with
\* TreeFull when index >= 2^height.
C8_GapFailsBelowCapacity ==
    \A index \in Indices(tree), leaf \in Felts :
        (index > tree.next_index /\ ValidLeaf(tree, leaf)) =>
            insert_at(tree, index, leaf)
                = [tree |-> tree,
                   res  |-> IF index < Pow2(tree.height)
                            THEN Err("IndexGap") ELSE Err("TreeFull")]

C8_Witness ==
    /\ res = "IndexGap"
    /\ tree.next_index >= 1
    /\ tree.next_index + 1 < Pow2(tree.height)

\* C9: insert_at with leaf 0 or the zero-leaf hash fails with InvalidLeaf for
\* every index in every tree state and changes nothing; no level-0 node holds
\* the zero-leaf hash.
C9_ZeroLeafRejected ==
    /\ \A index \in Indices(tree), leaf \in {FeltZero, zero_leaf_hash} :
          insert_at(tree, index, leaf) = [tree |-> tree, res |-> Err("InvalidLeaf")]
    /\ \A p \in DOMAIN tree.nodes :
          p[1] = 0 => (tree.nodes[p] # zero_leaf_hash /\ tree.nodes[p] # FeltZero)

C9_Witness ==
    /\ res = "InvalidLeaf"
    /\ tree.next_index >= 1

\* C10: when next_index = 2^height, inserting a valid leaf at next_index fails
\* with TreeFull and changes nothing; next_index <= 2^height in every state.
C10_FullTreeRejectsInsert ==
    /\ tree.next_index <= Pow2(tree.height)
    /\ tree.next_index = Pow2(tree.height) =>
          \A leaf \in Felts :
              ValidLeaf(tree, leaf) =>
                  insert_at(tree, tree.next_index, leaf)
                      = [tree |-> tree, res |-> Err("TreeFull")]

C10_Witness ==
    /\ res = "TreeFull"
    /\ tree.next_index = Pow2(tree.height)

\* ------------------------------------------- properties of the synchronizer
\* The leaf indices of the persisted CommitmentRecords of a token.
StoredIndices(token) == {r.leaf_index : r \in {c \in commitments : c.token = token}}

\* The indices at which the in-memory tree of a token holds a level-0 node.
LeafIndices(t) == {p[2] : p \in {n \in DOMAIN t.nodes : n[1] = 0}}

\* C11: at all times, for every tree key, the leaf indices of the persisted
\* CommitmentRecords are 0..n-1 and the in-memory tree holds a level-0 leaf
\* exactly at 0..next_index-1, whatever Deposit events arrive, a skipped index
\* included.
C11_LeafIndicesContiguous ==
    \A token \in Tokens :
        /\ StoredIndices(token) = 0 .. (Cardinality(StoredIndices(token)) - 1)
        /\ token \in DOMAIN trees =>
              LeafIndices(trees[token]) = 0 .. (trees[token].next_index - 1)

\* C12: in every reachable state a persisted RootRecord whose leaf_count is
\* resolved (non-zero) carries the root the in-memory tree of its token
\* recomputes for that leaf count, whether the leaf count was written by the
\* root handler or backfilled by a later deposit.
C12_ResolvedRootsMatchTree ==
    \A r \in roots :
        r.leaf_count # 0 =>
            /\ r.token \in DOMAIN trees
            /\ root_at(trees[r.token], r.leaf_count) = SomeFelt(parse_felt(r.root_hash))
            /\ r.root_hash = felt_to_hex(parse_felt(r.root_hash))

\* A deposit has just backfilled the leaf count of a root that was announced
\* before it in the same block, while another record was resolved directly.
C12_Witness ==
    /\ ix.pc = "deposit_cache"
    /\ ~last_block.some /\ reorgs = 0 /\ commands = 0 /\ Faulty(chain) = {}
    /\ chain[CurrentBlock][1].kind = "RootUpdated"
    /\ \E r \in roots :
          /\ r.token = CurrentEvent.token
          /\ r.root_hash = felt_to_hex(ix.new_root)
          /\ r.leaf_count = ix.leaf_count /\ r.leaf_count # 0
          /\ \E o \in roots : o # r /\ o.leaf_count # 0

\* The entries of the root cache all have a RootRecord of the same token with
\* the same root_hash and the same leaf_count.
CacheMirrorsStore ==
    \A token \in DOMAIN roots_cache :
        \A i \in 1 .. Len(roots_cache[token]) :
            \E r \in roots :
                /\ r.token = token
                /\ r.root_hash = roots_cache[token][i].root_hash
                /\ r.leaf_count = roots_cache[token][i].leaf_count

\* C13: in every reachable state each entry of the in-memory root cache of a
\* token corresponds to a persisted RootRecord of that token with the same
\* root_hash and leaf_count.
C13_CacheSubsetOfRoots == CacheMirrorsStore

\* C13, amended: the same outside the two windows in which the Store has been
\* written and the cache not yet: between storage.reset() and
\* roots_cache.clear() of a resync, and between the Store backfill and the
\* cache backfill of one Deposit.
C13_CacheSubsetWhenSettled ==
    ix.pc \notin {"clear", "deposit_cache"} => CacheMirrorsStore

\* A resync has replayed a block that announces the root before the deposit:
\* the cache entry was pushed pending and backfilled by the deposit.
C13_Witness ==
    /\ ix.pc = "finish" /\ ix.ctx = "resync"
    /\ Len(chain) >= 1 /\ Len(chain[1]) = 2 /\ chain[1][1].kind = "RootUpdated"
    /\ \E i \in 1 .. Len(CacheOf(chain[1][1].token)) :
          CacheOf(chain[1][1].token)[i].leaf_count # 0

\* C14: a cycle that begins with the persisted checkpoint above safe_latest
\* fails with Desync without fetching an event or changing trees, root cache
\* or Store, and a resync is started.
C14_ReorgBeyondFinalityDesyncs ==
    (ix.pc = "idle" /\ last_block.some /\ last_block.val > SafeLatest) =>
        ~ ENABLED (/\ Tick
                   /\ ~ (/\ ix'.pc = "reset" /\ ix'.ctx = "resync" /\ ix'.err = "Desync"
                         /\ ix'.queue = << >>
                         /\ UNCHANGED << storeVars, memVars >>))

\* A timer cycle has just failed with Desync on a checkpoint above safe_latest.
C14_Witness ==
    /\ ix.pc = "reset" /\ ix.err = "Desync"
    /\ last_block.some /\ last_block.val > SafeLatest

\* The synchronizer is inside resync() after storage.reset() and the clearing
\* of trees and root cache, about to replay from the start block.
ResyncReplayBegins ==
    /\ commitments = {} /\ roots = {} /\ ~last_block.some
    /\ trees = << >> /\ roots_cache = << >>
    /\ FromBlock = start_block

\* C15: every Desync error of a sync cycle, in a timer cycle or in the replay
\* step of a resync, is followed by a full resync before the next normal
\* cycle: the error hands over to resync(), whose steps truncate the Store,
\* clear trees and root cache and replay from the start block, and no other
\* synchronizer step comes in between.
C15_DesyncIsFollowedByResync ==
    [][/\ ix'.err = "Desync" => ix'.pc \in {"reset", "clear", "sync"} /\ ix'.ctx = "resync"
       /\ (ix.pc = "reset" /\ ix' # ix) =>
              ix'.pc = "clear" /\ commitments' = {} /\ roots' = {} /\ ~last_block'.some
       /\ (ix.pc = "clear" /\ ix' # ix) =>
              ix'.pc = "sync" /\ trees' = << >> /\ roots_cache' = << >>
       /\ ix.pc = "sync" => ResyncReplayBegins]_vars

\* The resync that a Desync started has truncated and cleared everything and
\* is about to replay.
C15_Witness ==
    /\ ix.pc = "sync" /\ ix.err = "Desync"
    /\ ResyncReplayBegins

\* C16: an Invariant error of a sync cycle aborts only that cycle: while it is
\* being handled the Store is not truncated and trees and root cache are not
\* cleared.
C16_InvariantDoesNotResync ==
    [][(ix.err = "Invariant" /\ ix.pc # "idle")
        => UNCHANGED << commitments, roots, last_block, trees, roots_cache >>]_vars

\* The tree of the token recomputes the root for one of its leaf counts.
RootIsRecomputed(token, root_hash) ==
    /\ token \in DOMAIN trees
    /\ \E k \in 0 .. trees[token].next_index :
          root_at(trees[token], k) = SomeFelt(parse_felt(root_hash))

\* C17: an announced root that disagrees with every root the engine recomputes
\* raises Desync: once a cycle has applied the deposits and ended without
\* error, no RootRecord (and no cache entry) holds a root the tree of its
\* token does not recompute.
C17_DivergentRootRaisesDesync ==
    (ix.pc = "idle" /\ ix.err = "None" /\ last_block.some) =>
        /\ \A r \in roots : RootIsRecomputed(r.token, r.root_hash)
        /\ \A token \in DOMAIN roots_cache :
              \A i \in 1 .. Len(roots_cache[token]) :
                  RootIsRecomputed(token, roots_cache[token][i].root_hash)

\* C18: the checkpoint is set only by the end of a cycle whose events have all
\* been handled without error, and to that cycle's safe_latest; a step of a
\* cycle that returns an error leaves the checkpoint as it was.
C18_CheckpointOnlyAfterFullCycle ==
    [][/\ (last_block' # last_block /\ last_block'.some) =>
              /\ ix.pc = "finish" /\ ix.queue = << >> /\ ix.err = "None"
              /\ last_block' = SomeBlock(ix.safe_latest)
              /\ ix' = IxIdle
       /\ (ix' # ix /\ ix'.err # "None" /\ ix.pc \notin {"reset", "clear"}) =>
              last_block' = last_block]_vars

\* A cycle that began with a checkpoint has failed and the checkpoint is still
\* there.
C18_Witness ==
    /\ last_block.some
    /\ ix.err # "None" /\ ix.pc \in {"idle", "reset"}
    /\ Len(chain) >= 1 /\ chain[1] # << >>

\* C19: a normal cycle that starts with checkpoint L fetches the events of the
\* blocks L+1 .. safe_latest only: no event of a block at or below the
\* checkpoint is in the fetched events of a timer cycle.
C19_FetchesAfterCheckpoint ==
    (ix.ctx = "timer" /\ last_block.some) =>
        \A i \in 1 .. Len(ix.queue) :
            /\ ix.queue[i].block_number > last_block.val
            /\ ix.queue[i].block_number <= ix.safe_latest

\* C20: a CommitmentRecord is immutable: insert_commitment for a stored
\* (token, leaf_index) reports "not inserted" when the commitment is identical
\* and fails with Invariant when it differs, and leaves the table unchanged in
\* both cases, for every record and every reachable table.
C20_CommitmentImmutable ==
    \A r \in commitments :
        \A commitment \in Commitments, block_number \in 0 .. MaxBlocks,
           canon \in BOOLEAN :
            LET record == [token |-> r.token, leaf_index |-> r.leaf_index,
                           commitment |-> [val |-> commitment, canon |-> canon],
                           block_number |-> block_number]
                out == insert_commitment(commitments, record)
            IN  /\ out.rows = commitments
                /\ ~out.inserted
                /\ out.res = IF record.commitment = r.commitment THEN "Ok"
                             ELSE "Invariant"

\* The synchronizer has called insert_commitment for a deposit whose leaf index
\* is stored with another commitment, and the call failed with Invariant.
C20_Witness ==
    /\ ix.err = "Invariant" /\ ix.pc = "reset"
    /\ \E b \in 1 .. Len(chain) :
          \E i \in 1 .. Len(chain[b]) :
              /\ chain[b][i].kind = "Deposit"
              /\ \E r \in commitments :
                    /\ r.token = chain[b][i].token
                    /\ r.leaf_index = chain[b][i].index
                    /\ r.commitment # felt_to_hex(chain[b][i].felt)

\* C21: whenever insert_commitment does not apply because of a uniqueness
\* conflict, the outcome is success-as-duplicate (the stored row of that
\* (token, leaf_index) carries the identical commitment) or an Invariant
\* error; a commitment already stored for the token under another leaf_index
\* gives Invariant.
C21_ConflictIsDuplicateOrInvariant ==
    \A token \in Tokens, leaf_index \in 0 .. max_leaves(tree_height),
       commitment \in Commitments, block_number \in 0 .. MaxBlocks :
        LET record == [token |-> token, leaf_index |-> leaf_index,
                       commitment |-> felt_to_hex(commitment),
                       block_number |-> block_number]
            out == insert_commitment(commitments, record)
        IN  ~ out.inserted =>
                \/ /\ out.res = "Ok"
                   /\ \E r \in commitments :
                         /\ r.token = token /\ r.leaf_index = leaf_index
                         /\ r.commitment = record.commitment
                \/ out.res = "Invariant"

\* C22: the leaf_count backfill only turns a stored 0 into the new value: a
\* RootRecord with a non-zero leaf_count stays as it is until the Store is
\* reset, and a backfill that meets a row of the same (token, root_hash) with
\* another non-zero leaf_count fails with Invariant and updates nothing.
C22_BackfillOnlyFillsPending ==
    [][/\ \A r \in roots : r.leaf_count # 0 => (r \in roots' \/ roots' = {})
       /\ \A token \in Tokens, root \in {parse_felt(r.root_hash) : r \in roots},
             leaf_count \in 1 .. max_leaves(tree_height) :
            LET root_hash == felt_to_hex(root)
                out  == update_root_leaf_count(roots, token, root_hash, leaf_count)
                rows == {r \in roots : r.token = token /\ r.root_hash = root_hash}
            IN  IF \E r \in rows : r.leaf_count # 0 /\ r.leaf_count # leaf_count
                THEN out.res = "Invariant" /\ out.rows = roots
                ELSE /\ out.res = "Ok"
                     /\ out.rows = {IF r \in rows /\ r.leaf_count = 0
                                    THEN [r EXCEPT !.leaf_count = leaf_count]
                                    ELSE r : r \in roots}]_vars

\* A deposit has just backfilled the row of a root that was stored pending; the
\* cache entry of that root is still pending.
C22_Witness ==
    /\ ix.pc = "deposit_cache"
    /\ \E r \in roots :
          /\ r.token = CurrentEvent.token
          /\ r.root_hash = felt_to_hex(ix.new_root)
          /\ r.leaf_count = ix.leaf_count /\ r.leaf_count # 0
    /\ \E i \in 1 .. Len(CacheOf(CurrentEvent.token)) :
          /\ CacheOf(CurrentEvent.token)[i].root_hash = felt_to_hex(ix.new_root)
          /\ CacheOf(CurrentEvent.token)[i].leaf_count = 0

\* The RootUpdated event at the head of the queue announces a root that
\* resolve_leaf_count_for_root does not resolve.
RootIsPending ==
    /\ ix.pc = "event" /\ CurrentEvent.kind = "RootUpdated"
    /\ ~ resolve_leaf_count_for_root(TreeEntry(trees, CurrentEvent.token, tree_height),
                                    CurrentEvent.felt,
                                    get_latest_leaf_count(roots, CurrentEvent.token)).some

\* The handler of the pending root has stored and cached it with leaf_count 0
\* and returned Ok.
PendingRootKept ==
    /\ ix'.err = "None" /\ ix'.pc \in {"event", "finish"}
    /\ \E r \in roots' :
          /\ r.token = CurrentEvent.token /\ r.root_index = CurrentEvent.index
          /\ r.root_hash = felt_to_hex(CurrentEvent.felt) /\ r.leaf_count = 0
    /\ CurrentEvent.token \in DOMAIN roots_cache'
    /\ Head(roots_cache'[CurrentEvent.token])
          = [root_hash |-> felt_to_hex(CurrentEvent.felt), leaf_count |-> 0]

\* The deposit at the head of the queue has resolved every row and every cache
\* entry of the root the tree now has to the tree's next_index.
PendingRootBackfilled ==
    LET token == CurrentEvent.token
        t     == trees'[token]
    IN  /\ ix.new_root = t.root /\ ix.leaf_count = t.next_index
        /\ \A r \in roots' :
              (r.token = token /\ r.root_hash = felt_to_hex(t.root))
                  => r.leaf_count = t.next_index
        /\ token \in DOMAIN roots_cache' =>
              \A i \in 1 .. Len(roots_cache'[token]) :
                  roots_cache'[token][i].root_hash = felt_to_hex(t.root)
                      => roots_cache'[token][i].leaf_count = t.next_index

RootIndexTaken ==
    \E r \in roots :
        /\ r.token = CurrentEvent.token /\ r.root_index = CurrentEvent.index
        /\ (r.root_hash # felt_to_hex(CurrentEvent.felt) \/ r.leaf_count # 0)

CycleCompleted == ix.pc = "idle" /\ ix.err = "None"

\* C24: after every successfully completed cycle or resync, load_trees replays
\* the persisted CommitmentRecords into trees with the same next_index and
\* root as the in-memory trees built from the events; a token without rows
\* has an empty tree.
C24_LoadTreesReproducesTrees ==
    CycleCompleted =>
        LET rebuilt == load_trees(commitments, tree_height)
        IN  /\ rebuilt.ok
            /\ \A token \in DOMAIN trees :
                  LET loaded == TreeEntry(rebuilt.trees, token, tree_height)
                  IN  /\ loaded.next_index = trees[token].next_index
                      /\ loaded.root = trees[token].root
            /\ DOMAIN rebuilt.trees \subseteq DOMAIN trees

\* What a synchronizer that starts with an empty Store, empty trees and an
\* empty root cache holds after one successful cycle over the chain, stated
\* from the chain alone: a row per Deposit, a tree per token with the deposited
\* leaves, a RootRecord per RootUpdated whose leaf_count is the leaf count at
\* which the token's tree has that root (0 when there is none), the cache
\* entries of a token newest first, and the checkpoint at safe_latest.
FreshEvents == GetEvents(start_block, SafeLatest)

FreshLeaves(token) ==
    LET deposits == SelectSeq(FreshEvents, LAMBDA e : e.event.kind = "Deposit"
                                                      /\ e.event.token = token)
    IN  [i \in 1 .. Len(deposits) |-> deposits[i].event.felt]

FreshTrees == [token \in Tokens |-> Replay(tree_height, FreshLeaves(token))]

FreshCommitments ==
    {[token |-> FreshEvents[i].event.token, leaf_index |-> FreshEvents[i].event.index,
      commitment |-> felt_to_hex(FreshEvents[i].event.felt),
      block_number |-> FreshEvents[i].block_number] :
        i \in {j \in 1 .. Len(FreshEvents) : FreshEvents[j].event.kind = "Deposit"}}

FreshLeafCount(token, root) ==
    LET t    == FreshTrees[token]
        hits == {k \in 1 .. t.next_index : root_at(t, k) = SomeFelt(root)}
    IN  IF hits = {} THEN 0 ELSE CHOOSE k \in hits : TRUE

FreshRoots ==
    {[token |-> FreshEvents[i].event.token, root_index |-> FreshEvents[i].event.index,
      root_hash |-> felt_to_hex(FreshEvents[i].event.felt),
      block_number |-> FreshEvents[i].block_number,
      leaf_count |-> FreshLeafCount(FreshEvents[i].event.token, FreshEvents[i].event.felt)] :
        i \in {j \in 1 .. Len(FreshEvents) : FreshEvents[j].event.kind = "RootUpdated"}}

FreshCache ==
    [token \in {r.token : r \in FreshRoots} |->
        LET announced == SelectSeq(FreshEvents, LAMBDA e : e.event.kind = "RootUpdated"
                                                           /\ e.event.token = token)
            n == Len(announced)
        IN  [i \in 1 .. n |->
                [root_hash  |-> felt_to_hex(announced[n + 1 - i].event.felt),
                 leaf_count |-> FreshLeafCount(token, announced[n + 1 - i].event.felt)]]]

\* C25: a successful resync, from whatever state it was started, ends in the
\* Store contents, trees, root cache and checkpoint that a fresh start syncing
\* the same chain from the start block ends in.
C25_ResyncEndsLikeFreshStart ==
    [][(/\ ix.pc = "finish" /\ ix' = IxIdle
        /\ \/ ix.ctx = "resync"
           \/ ix.ctx = "timer" /\ ~last_block.some /\ reorgs = 0 /\ commands = 0)
        => /\ commitments' = FreshCommitments
           /\ roots' = FreshRoots
           /\ trees' = FreshTrees
           /\ roots_cache' = FreshCache
           /\ last_block' = SomeBlock(SafeLatest)]_vars

\* A resync that followed a reorg has replayed deposits and roots of the new
\* chain and is about to write the checkpoint.
C25_Witness ==
    /\ ix.pc = "finish" /\ ix.ctx = "resync"
    /\ reorgs = 1
    /\ commitments = FreshCommitments /\ commitments # {}
    /\ roots = FreshRoots /\ roots # {}

\* C26: a resync never runs concurrently with a normal cycle: a command that
\* arrives during a cycle leaves the cycle as it is and is received only when
\* the synchronizer is between cycles; a cycle in flight turns into a resync
\* only by its own Desync or Invariant error; and while a resync runs no
\* timer cycle begins.
C26_ResyncExcludesCycle ==
    [][/\ commands' > commands => ix' = ix
       /\ commands' < commands =>
              ix.pc = "idle" /\ ix'.pc = "reset" /\ ix'.ctx = "resync"
       /\ (ix.pc # "idle" /\ ix.ctx = "timer" /\ ix'.ctx = "resync") =>
              ix'.pc = "reset" /\ ix'.err \in {"Desync", "Invariant"}
       /\ (ix.ctx = "resync" /\ ix'.ctx = "timer") => ix'.pc = "idle"]_vars

\* A resync command waits in the channel while a timer cycle handles events.
C26_Witness ==
    /\ commands > 0
    /\ ix.ctx = "timer" /\ ix.pc \in {"deposit_tree", "deposit_roots", "deposit_cache"}


\* The roots of the complete states the tree of the request that holds the
\* read lock has gone through: root_at at every leaf count up to next_index.
CompleteTreeRoots ==
    IF q.pc # "locked" THEN {}
    ELSE {root_at(trees[q.token], n).val : n \in 0 .. trees[q.token].next_index}

\* C27: a path query interleaved with the synchronizer's insertions sees the
\* tree wholly before or wholly after each insertion: the tree does not change
\* while the request holds the read lock, and every successful response folds
\* to the root of a complete state of that tree.
C27_PathFoldsToCompleteTreeRoot ==
    \A r \in PathResponses :
        r.status = 200 => PathFold(r) \in CompleteTreeRoots


\* Every leaf of every in-memory tree has its CommitmentRecord in the Store.
TreeLeavesPersisted ==
    \A token \in DOMAIN trees :
        \A i \in LeafIndices(trees[token]) :
            \E c \in commitments :
                /\ c.token = token /\ c.leaf_index = i
                /\ parse_felt(c.commitment) = trees[token].nodes[<< 0, i >>]

\* Every root of every in-memory root cache has a RootRecord in the Store.
CacheRootsPersisted ==
    \A token \in DOMAIN roots_cache :
        \A i \in 1 .. Len(roots_cache[token]) :
            \E r \in roots :
                r.token = token /\ r.root_hash = roots_cache[token][i].root_hash

\* C28: persistence precedes the in-memory update, so in every reachable
\* state the in-memory trees hold no leaf and the root caches hold no root
\* that the Store lacks.
C28_MemoryNeverAheadOfStore ==
    TreeLeavesPersisted /\ CacheRootsPersisted

\* C28, amended: the same in every state except between storage.reset() and
\* the clearing of the trees and the root cache in a resync, where the Store
\* is emptied first.
C28_MemoryNeverAheadOutsideReset ==
    ix.pc # "clear" => TreeLeavesPersisted /\ CacheRootsPersisted


\* A deposit has just put its leaf into a tree whose root cache already holds
\* a root, after the Store was emptied and rebuilt by a resync.
C28_Witness ==
    /\ ix.pc = "deposit_roots" /\ ix.ctx = "resync"
    /\ CurrentEvent.token \in DOMAIN trees
    /\ CurrentEvent.index \in LeafIndices(trees[CurrentEvent.token])
    /\ Len(CacheOf(CurrentEvent.token)) > 0


C30_SelectorRootsAreFinal ==
    finality_depth > 0 =>
        \A r \in PathResponses :
            (r.status = 200 /\ r.mode # "none") =>
                \E record \in roots :
                    /\ record.token = r.token
                    /\ parse_felt(record.root_hash) = r.root
                    /\ record.block_number <= finality_block


\* C31: the synchronizer never keeps the write lock of the tree map while it
\* awaits a Store or chain call, so a path request that has found its
\* commitment never has to wait for such a call before it gets the read lock.
C31_ReadLockNeverWaitsForStore ==
    q.pc = "found" => (~WriteLockHeld /\ ENABLED PathLock)


\* The leaf count the root handler resolves for the RootUpdated event it is
\* about to handle (events.rs:310-319).
HandlerResolvedCount ==
    resolve_leaf_count_for_root(TreeEntry(trees, CurrentEvent.token, tree_height),
                                CurrentEvent.felt,
                                get_latest_leaf_count(roots, CurrentEvent.token))

\* The resolved leaf counts the Store holds for the announced root.
PersistedCounts ==
    {r.leaf_count : r \in {o \in roots : /\ o.token = CurrentEvent.token
                                         /\ o.root_hash = felt_to_hex(CurrentEvent.felt)
                                         /\ o.leaf_count # 0}}

\* C32: when the root handler meets an announced root that is not the tree's
\* current root and for which the Store already holds a record with a resolved
\* leaf count, it resolves the leaf count to that persisted value.
C32_PersistedCountIsUsed ==
    (/\ ix.pc = "event" /\ CurrentEvent.kind = "RootUpdated"
     /\ TreeEntry(trees, CurrentEvent.token, tree_height).root # CurrentEvent.felt)
        => \A n \in PersistedCounts : HandlerResolvedCount = SomeCount(n)


\* ------------------------------------- properties of the leaf-count resolvers
\* The roots the scan is asked for: every historical root of the tree and one
\* root the tree never had.
ScanRoots == {root_at(tree, k).val : k \in 0 .. tree.next_index} \cup {FeltZero}

\* The last_flushed values the scan is asked with.
ScanFlushed == 0 .. (max_leaves(tree.height) + 1)

\* The step budgets the scan is asked with.
ScanBudgets == (0 .. MaxBudget) \cup {MAX_ROOT_LOOKUP_STEPS}

\* The leaf counts in last_flushed + 1 ..= next_index at which the tree had
\* the root.
ScanMatches(root, last_flushed) ==
    {k \in (last_flushed + 1) .. tree.next_index : root_at(tree, k) = SomeFelt(root)}

\* C33: for a root that is not the tree's current root, the resolver of the
\* synchronizer and that of the Query Service look only at the leaf counts
\* above last_flushed up to next_index, evaluate root_at at most as often as
\* the step budget allows, return the smallest matching leaf count when
\* next_index - last_flushed is within the budget and nothing otherwise; and
\* both return the same for the same tree, root and last_flushed.
C33_ScanIsBoundedAndAgrees ==
    \A root \in ScanRoots, last_flushed \in ScanFlushed, budget \in ScanBudgets :
        LET sync    == ResolveWithin(tree, root, last_flushed, budget)
            query   == QueryResolveWithin(tree, root, last_flushed, budget)
            matches == ScanMatches(root, last_flushed)
        IN  /\ sync = query
            /\ ResolveSteps(tree, root, last_flushed, budget) <= budget
            /\ QueryResolveSteps(tree, root, last_flushed, budget) <= budget
            /\ root # tree.root =>
                 sync = IF tree.next_index - last_flushed > budget \/ matches = {}
                        THEN NoCount
                        ELSE SomeCount(CHOOSE k \in matches : \A j \in matches : k <= j)
            /\ budget = MAX_ROOT_LOOKUP_STEPS =>
                 sync = resolve_leaf_count_for_root(tree, root, last_flushed)

\* A tree of three leaves at least, for which one scan finds an older root
\* after two root_at evaluations and another gives up on a root the tree had,
\* because the pending leaves exceed the budget.
C33_Witness ==
    /\ tree.next_index >= 3
    /\ \E root \in ScanRoots, last_flushed \in ScanFlushed, budget \in ScanBudgets :
          /\ root # tree.root
          /\ ResolveWithin(tree, root, last_flushed, budget).some
          /\ ResolveSteps(tree, root, last_flushed, budget) = 2
    /\ \E root \in ScanRoots, last_flushed \in ScanFlushed, budget \in ScanBudgets :
          /\ root # tree.root
          /\ ScanMatches(root, last_flushed) # {}
          /\ ~ResolveWithin(tree, root, last_flushed, budget).some


\* ------------------------------------------- properties of the insertion path
\* The answer of POST /insert_path for a tree map that holds the tree.
InsertPathResponse == get_insert_path([t \in {"position"} |-> tree], "position")

\* C34: insertion_path_at(leaf_count) answers exactly when leaf_count is at
\* most next_index and below the capacity; its leaf_index is leaf_count; the
\* zero leaf folded along it gives root_at(leaf_count); a new leaf folded along
\* insertion_path_at(next_index) gives the root after inserting that leaf;
\* insertion_path() is insertion_path_at(next_index()); and POST /insert_path
\* returns that path together with the current root of the same tree.
C34_InsertionPathFoldsToRoot ==
    /\ \A leaf_count \in Indices(tree) :
          LET p == insertion_path_at(tree, leaf_count)
          IN  /\ p.some <=> (leaf_count <= tree.next_index
                             /\ leaf_count < Pow2(tree.height))
              /\ p.some =>
                    /\ p.leaf_index = leaf_count
                    /\ SomeFelt(compute_root_from_path(zero_leaf_hash, p.path, p.indices))
                          = root_at(tree, leaf_count)
    /\ insertion_path(tree) = insertion_path_at(tree, tree.next_index)
    /\ \A leaf \in Felts :
          LET p == insertion_path_at(tree, tree.next_index)
              r == insert_at(tree, tree.next_index, leaf)
          IN  (p.some /\ r.res.tag = "Ok") =>
                 compute_root_from_path(leaf, p.path, p.indices) = r.tree.root
    /\ LET p == insertion_path_at(tree, tree.next_index)
           response == InsertPathResponse
       IN  IF p.some
           THEN /\ response.status = 200
                /\ response.leaf_index = tree.next_index
                /\ response.indices = p.indices
                /\ [i \in DOMAIN response.path |-> parse_felt(response.path[i])] = p.path
                /\ parse_felt(response.root) = tree.root
                /\ compute_root_from_path(
                       parse_felt(response.commitment),
                       [i \in DOMAIN response.path |-> parse_felt(response.path[i])],
                       response.indices) = parse_felt(response.root)
           ELSE response.status = 400

\* A tree of height 2 with three leaves: insertion paths exist for the leaf
\* counts 0 to 3 and for none beyond, and the path for an earlier leaf count
\* differs from the one for the same index in the current tree.
C34_Witness ==
    /\ tree.height = 2 /\ tree.next_index = 3
    /\ insertion_path_at(tree, 3).some /\ ~insertion_path_at(tree, 4).some
    /\ insertion_path_at(tree, 1).some
    /\ insertion_path_at(tree, 1).path # get_path_at(tree, 1, 3).path
    /\ InsertPathResponse.status = 200


\* ----------------------------------------------- properties of the root cache
\* The root cache of a token is the tail of its persisted roots: the entries
\* of its most recent RootRecords, newest first, one entry for each record.
CacheIsTailOfRoots(token) ==
    roots_cache[token] = RecentRoots({r \in roots : r.token = token}, ROOT_CACHE_LIMIT)

\* C35: the root cache of every tree key holds at most ROOT_CACHE_LIMIT
\* entries and is the tail of the persisted roots of that key, newest first
\* and each RootRecord once, also after events were observed again.  Stated
\* for the states in which the synchronizer is idle after a cycle that ended
\* without error.
C35_CacheMirrorsTailOfRoots ==
    (ix.pc = "idle" /\ ix.err = "None") =>
        \A token \in DOMAIN roots_cache :
            /\ Len(roots_cache[token]) <= ROOT_CACHE_LIMIT
            /\ CacheIsTailOfRoots(token)


\* -------------------------------------------- properties of GET /root/latest
\* C36: GET /root/latest for a tree key reports a root_index equal to the
\* number of commitments inserted into that tree.
C36_LatestRootIndexIsLeafCount ==
    \A token \in DOMAIN trees :
        \A response \in get_root_latest(token) :
            response.status = 200 => response.root_index = trees[token].next_index


\* ------------------------------------------------ properties of the sync cycle
\* The synchronizer is inside a timer cycle, past the reload, that began with
\* the checkpoint at safe_latest on a chain that never reorganised and holds
\* the events of a correct contract only: the chain has nothing new for it.
InCycleOnSyncedState ==
    /\ ix.ctx = "timer" /\ ix.pc \notin {"idle", "reload"}
    /\ last_block.some /\ last_block.val = ix.safe_latest
    /\ reorgs = 0 /\ Faulty(chain) = {}

\* C37: a normal cycle on an already synced state is a no-op: when the chain
\* has produced no new finality-safe block or event since the checkpoint was
\* set, no step of the cycle raises an error or hands over to a resync, and
\* every step leaves the Store, the checkpoint, the trees and the root cache
\* as they are, whatever the blocks hold.
C37_CycleOnSyncedStateIsNoOp ==
    [][InCycleOnSyncedState =>
          /\ ix'.err = "None" /\ ix'.ctx = "timer"
          /\ UNCHANGED << storeVars, memVars >>]_vars


\* ------------------------------------------------------ properties of resync
\* Checkpoint, Store, trees and root cache are what the replay of the chain's
\* events from the start block to safe_latest gives.
Repaired ==
    /\ last_block = SomeBlock(SafeLatest)
    /\ commitments = FreshCommitments
    /\ roots = FreshRoots
    /\ trees = FreshTrees
    /\ roots_cache = FreshCache

\* The synchronizer has just taken a command from the channel (a resync that
\* an error started carries the error).
CommandReceived == ix.pc = "reset" /\ ix.ctx = "resync" /\ ix.err = "None"

C40_CheckpointOnlyGrows ==
    [][last_block' # last_block =>
          \/ /\ ix.pc = "reset" /\ ix.ctx = "resync"
             /\ last_block' = NoBlock
          \/ /\ ix.pc = "finish"
             /\ last_block' = SomeBlock(ix.safe_latest)
             /\ last_block.some => last_block'.val > last_block.val]_vars

\* A normal cycle is about to replace a checkpoint by a higher one.
C40_Witness ==
    /\ ix.pc = "finish" /\ ix.ctx = "timer"
    /\ last_block.some /\ ix.safe_latest > last_block.val


\* ------------------------------------------------------ properties of the locks
\* The synchronizer is inside a cycle or a resync and its next step waits for
\* a lock.
SyncBlocked == ix.pc # "idle" /\ ~ENABLED CycleStep

\* A request waits for the read lock of the tree map.
QueryBlocked == q.pc = "found" /\ ~ENABLED PathLock

=============================================================================
